---- MODULE Spec2Model ----
(***************************************************************************)
(* Model of the magnus orchestration engine: the ConversationHistory       *)
(* context store (src/llm/history.llm.ts), the streaming transport         *)
(* (src/llm/client.llm.ts) and the recursive tool-calling loop with its    *)
(* user-interface entry points (src/index.tsx).                            *)
(*                                                                         *)
(* Text is modelled as a sequence of tokens; string concatenation is \o.   *)
(* A token carries the text it stands for and the model call that emitted  *)
(* it (turn, iteration), <<0, 0>> for text that no model call produced.    *)
(***************************************************************************)
EXTENDS Integers, Sequences, FiniteSets, TLC

VARIABLES
    conversationHistory,  \* the ConversationHistory instance: messages, pendingTokenBuffer, isAppending
    lastCall,             \* store API: the last call made on the store and whether it threw
    tx,                   \* store API: history at the last startAppendToken and the fragments appended since
    summarizing,          \* the summarizeHistoryIfNeeded call that awaits the summarize tool, if any
    returned,             \* store API: an array handed out by getHistory(), in its caller's hands
    evaluation,           \* a function applied on its own: its name, its argument, what it gave
    par,                  \* dispatcher: one executeToolsParallel call (its calls, their state, results, errors)
    loops,                \* the handleRecursiveToolCalling invocations (turns) started so far, by number
    isLoading,            \* App state isLoading
    isInterruptible,      \* App state isInterruptible
    isCancelledRef,       \* isCancelledRef.current
    showModal,            \* App state showModal
    error,                \* App state error (set: the error screen replaces input and menu)
    responses             \* the number of model responses received so far

storeVars == <<conversationHistory, lastCall, tx, summarizing>>

appVars == <<loops, isLoading, isInterruptible, isCancelledRef, showModal, error, responses>>

vars == <<conversationHistory, lastCall, tx, summarizing, returned, evaluation, par, loops, isLoading,
          isInterruptible, isCancelledRef, showModal, error, responses>>

----------------------------------------------------------------------------
(* Bounds *)

MaxMessages == 2     \* SpecStore: longest history built through addMessage
MaxContent == 2      \* SpecStore: longest message content / token buffer, in tokens
MaxCalls == 3        \* SpecPar: most tool calls in one parallel dispatch
MaxTurns == 2        \* Spec: turns (submits and project initializations) started in one run
IterationCap == 2    \* Spec: cap on maxIterations, whose default the model cannot enumerate
MaxResponses == 2    \* Spec: model responses received in one run, over all turns
MaxHistory == 4      \* SpecSum: longest history
MaxParams == 3       \* SpecParse: most parameter tags in one tool block
MaxItems == 3        \* SpecCoerce: longest array among the raw parameter values
MaxRecords == 3      \* SpecDecode: most records in one stream

\* handleRecursiveToolCalling(provider, initialMessages, maxIterations = 100)
DefaultMaxIterations == 100

maxIterations == IF DefaultMaxIterations < IterationCap THEN DefaultMaxIterations ELSE IterationCap

----------------------------------------------------------------------------
(* Text *)

Tok(s, turn, it) == [s |-> s, turn |-> turn, it |-> it]

Text(s) == <<Tok(s, 0, 0)>>

\* The sequences of n elements of S.
RECURSIVE SeqsOfLen(_, _)
SeqsOfLen(S, n) ==
    IF n = 0 THEN {<<>>}
    ELSE {Append(q, x) : q \in SeqsOfLen(S, n - 1), x \in S}

----------------------------------------------------------------------------
(* ConversationHistory *)

Message(role, content) == [role |-> role, content |-> content]

NewHistory(systemPrompt) ==
    [messages |-> IF systemPrompt # <<>> THEN <<Message("system", systemPrompt)>> ELSE <<>>,
     pendingTokenBuffer |-> <<>>,
     isAppending |-> FALSE]

\* Faulty variant of addMessage: the message is put in front of the others.
addMessageAtHead(h, role, content) ==
    [h EXCEPT !.messages = <<Message(role, content)>> \o @]

addMessage(h, role, content) ==
    [h EXCEPT !.messages = Append(@, Message(role, content))]

\* Faulty variant of addSystemMessage: the message is inserted at the head whatever is there.
addSystemMessageUnshift(h, content) ==
    [h EXCEPT !.messages = <<Message("system", content)>> \o @]

addSystemMessage(h, content) ==
    IF Len(h.messages) = 0 \/ h.messages[1].role # "system"
    THEN [h EXCEPT !.messages = <<Message("system", content)>> \o @]
    ELSE [h EXCEPT !.messages[1].content = content]

\* Faulty variant of clear: every message is removed.
clearAll(h) == [h EXCEPT !.messages = <<>>]

clear(h) ==
    [h EXCEPT !.messages = SelectSeq(@, LAMBDA msg : msg.role = "system")]

startAppendTokenThrows(h) == FALSE

startAppendToken(h) ==
    [h EXCEPT !.isAppending = TRUE, !.pendingTokenBuffer = <<>>]

\* Faulty variant of appendTokenThrows: a fragment is accepted without a transaction.
appendTokenAlwaysAccepts(h) == FALSE

appendTokenThrows(h) == ~h.isAppending

appendToken(h, token) ==
    [h EXCEPT !.pendingTokenBuffer = @ \o token]

commitAppendTokenThrows(h) == ~h.isAppending

\* Faulty variant of commitAppendToken: the role of the trailing message is not looked at,
\* the buffer always becomes a new assistant message.
commitAppendTokenNewMessage(h) ==
    [messages |-> IF Len(h.pendingTokenBuffer) > 0
                  THEN Append(h.messages, Message("assistant", h.pendingTokenBuffer))
                  ELSE h.messages,
     pendingTokenBuffer |-> <<>>,
     isAppending |-> FALSE]

commitAppendToken(h) ==
    LET n == Len(h.messages)
        written ==
            IF Len(h.pendingTokenBuffer) > 0
            THEN IF n > 0 /\ h.messages[n].role = "assistant"
                 THEN [h.messages EXCEPT ![n].content = @ \o h.pendingTokenBuffer]
                 ELSE Append(h.messages, Message("assistant", h.pendingTokenBuffer))
            ELSE h.messages
    IN  [messages |-> written, pendingTokenBuffer |-> <<>>, isAppending |-> FALSE]

\* Faulty variant of cancelAppendToken: the transaction is flushed like a commit.
cancelAppendTokenFlush(h) == commitAppendToken(h)

cancelAppendToken(h) ==
    [h EXCEPT !.isAppending = FALSE, !.pendingTokenBuffer = <<>>]

\* getHistory(): a new array holding the store's message objects themselves.
\* An entry of the array is a reference: `at` is the position in the store's array of
\* the message object it refers to, or 0 with the object itself in `val` when the
\* store's array does not hold the object.
Ref(i) == [at |-> i, val |-> <<>>]

Detached(msg) == [at |-> 0, val |-> <<msg>>]

Deref(r, messages) == IF r.at > 0 THEN messages[r.at] ELSE r.val[1]

getHistory(h) == [i \in 1..Len(h.messages) |-> Ref(i)]

\* A write through entry i of an array of references: a field of the message object is set.
WriteThrough(h, refs, i, field, value) ==
    IF refs[i].at > 0
    THEN [h |-> [h EXCEPT !.messages[refs[i].at][field] = value], refs |-> refs]
    ELSE [h |-> h, refs |-> [refs EXCEPT ![i].val[1][field] = value]]

----------------------------------------------------------------------------
(* Context size and summarization *)

\* if (currentLength > 60000)
SummarizationThreshold == 60000

\* if (content.length > 100000) of the summarize tool
MaxSummarizeContent == 100000

\* The character count of the text a token stands for: an ordinary token, or a
\* large text (a file that was read, a long paste).
TokenChars == 8

BigChars == 4 * SummarizationThreshold

Chars(tok) ==
    IF "s" \in DOMAIN tok
    THEN IF tok.s = "big" THEN BigChars ELSE TokenChars
    ELSE IF "parameters" \in DOMAIN tok /\ tok.parameters = "big" /\ "kind" \in DOMAIN tok
         THEN BigChars ELSE TokenChars

RECURSIVE ContentChars(_)
ContentChars(content) ==
    IF content = <<>> THEN 0 ELSE Chars(Head(content)) + ContentChars(Tail(content))

RoleChars(role) ==
    CASE role = "system" -> 6
      [] role = "user" -> 4
      [] role = "assistant" -> 9

\* Math.ceil(text.length / 4)
calculateTokenCount(chars) == (chars + 3) \div 4

RECURSIVE getCurrentContextLength(_)
getCurrentContextLength(messages) ==
    IF messages = <<>> THEN 0
    ELSE calculateTokenCount(RoleChars(Head(messages).role))
         + calculateTokenCount(ContentChars(Head(messages).content))
         + 4
         + getCurrentContextLength(Tail(messages))

\* The positions, in order, of the system messages (isSystem) or of the others.
Positions(messages, isSystem) ==
    SelectSeq([i \in 1..Len(messages) |-> i],
              LAMBDA i : (messages[i].role = "system") = isSystem)

\* Faulty variant of SplitPoint: the history is split in the middle.
SplitPointHalf(n) == n \div 2

\* Math.floor((nonSystemMessages.length * 3) / 4)
SplitPoint(n) == (n * 3) \div 4

\* The length of messagesToSummarize.map(role.toUpperCase() + ': ' + content).join('\n\n')
RECURSIVE TextToSummarizeChars(_)
TextToSummarizeChars(messages) ==
    IF messages = <<>> THEN 0
    ELSE RoleChars(Head(messages).role) + 2 + ContentChars(Head(messages).content)
         + (IF Len(messages) > 1 THEN 2 ELSE 0)
         + TextToSummarizeChars(Tail(messages))

NoSummarization ==
    [active |-> FALSE, owner |-> 0, hasSystem |-> FALSE, system |-> <<>>, keep |-> <<>>,
     n |-> 0, chars |-> 0]

\* summarizeHistoryIfNeeded up to its await: what the call holds while the summarize
\* tool runs. systemMessage and messagesToKeep hold the message objects themselves.
SummarizationStarted(h, owner) ==
    LET sys == Positions(h.messages, TRUE)
        nonSystem == Positions(h.messages, FALSE)
        cut == SplitPoint(Len(nonSystem))
        toSummarize == [i \in 1..cut |-> h.messages[nonSystem[i]]]
    IN  [active |-> TRUE, owner |-> owner,
         hasSystem |-> sys # <<>>,
         system |-> IF sys # <<>> THEN <<Ref(sys[1])>> ELSE <<>>,
         keep |-> [i \in 1..(Len(nonSystem) - cut) |-> Ref(nonSystem[cut + i])],
         n |-> cut,
         chars |-> TextToSummarizeChars(toSummarize)]

summarizeHistoryNeeded(h) == getCurrentContextLength(h.messages) > SummarizationThreshold

\* summarizeTool.execute: how the call can end for a text of `chars` characters.
\* "threw": the parameters are rejected (content must not be empty);
\* "failed": { success: false } (text too large, or the nested model call failed).
summarizeTool(chars) ==
    IF chars = 0 THEN {"threw"}
    ELSE IF chars > MaxSummarizeContent THEN {"failed"}
    ELSE {"ok", "failed"}

SummaryMessage(n, summary) ==
    Message("user", <<[s |-> "[SUMMARIZED CONTEXT - n messages compressed]:", n |-> n]>> \o summary)

\* Faulty variant of SummarizationSettled: a failed summarization drops the messages
\* it was given.
SummarizationSettledLossy(h, p, outcome, summary) ==
    [h EXCEPT !.messages =
        (IF p.hasSystem THEN <<Deref(p.system[1], h.messages)>> ELSE <<>>)
        \o (IF outcome = "ok" THEN <<SummaryMessage(p.n, summary)>> ELSE <<>>)
        \o [i \in 1..Len(p.keep) |-> Deref(p.keep[i], h.messages)]]

\* summarizeHistoryIfNeeded after its await.
SummarizationSettled(h, p, outcome, summary) ==
    IF outcome = "ok"
    THEN [h EXCEPT !.messages =
            (IF p.hasSystem THEN <<Deref(p.system[1], h.messages)>> ELSE <<>>)
            \o <<SummaryMessage(p.n, summary)>>
            \o [i \in 1..Len(p.keep) |-> Deref(p.keep[i], h.messages)]]
    ELSE h

\* The references of a pending summarization after the store's array `old` has been
\* replaced by one in which the object at position i of `old` is at position move[i]
\* (0: the new array does not hold it).
Relocate(p, old, move) ==
    LET to(r) == IF r.at = 0 THEN r
                 ELSE IF move[r.at] > 0 THEN Ref(move[r.at]) ELSE Detached(old[r.at])
    IN  [p EXCEPT !.system = [i \in 1..Len(@) |-> to(@[i])],
                  !.keep = [i \in 1..Len(@) |-> to(@[i])]]

\* unshift: every object moves up by one.
MovedByUnshift(old) == [i \in 1..Len(old) |-> i + 1]

\* filter(msg => msg.role === 'system'): the objects that pass keep their order.
MovedByFilter(old) ==
    [i \in 1..Len(old) |->
        IF old[i].role = "system"
        THEN Cardinality({j \in 1..i : old[j].role = "system"})
        ELSE 0]

\* What SpecStore records of the last call, and of the transaction in progress.
NoTx == [phase |-> "none", snap |-> <<>>, frags |-> <<>>]

\* No function has been applied on its own.
NoEvaluation == [fn |-> "none", source |-> <<>>, input |-> <<>>, output |-> <<>>]

\* No array has been handed out.
NoReturned == [active |-> FALSE, refs |-> <<>>, reported |-> <<>>]

Call(op, threw, wasAppending) == [op |-> op, threw |-> threw, wasAppending |-> wasAppending]

----------------------------------------------------------------------------
(* Tool dispatcher *)

\* The registered capabilities the model distinguishes (the registry holds more).
toolRegistry == {"read", "glob"}

getTool(name) == name \in toolRegistry

ToolCall(name, parameters) == [name |-> name, parameters |-> parameters]

\* JSON.stringify(result): the serialized result of a successful execution.
ToolResult(toolCall) == [kind |-> "result", name |-> toolCall.name, parameters |-> toolCall.parameters]

NotFoundError(toolCall) == [kind |-> "not found", name |-> toolCall.name, available |-> toolRegistry]

ThrownError(toolCall) == [kind |-> "thrown", name |-> toolCall.name, available |-> {}]

\* Faulty variant of executeTool: the registry is not consulted, whatever is named is run.
executeToolUnchecked(toolCall) ==
    {[success |-> TRUE, result |-> <<ToolResult(toolCall)>>, error |-> <<>>],
     [success |-> FALSE, result |-> <<>>, error |-> <<ThrownError(toolCall)>>]}

\* executeTool: the outcomes one execution can have. An unregistered name fails at
\* once with the not-found error; a registered tool resolves or throws.
executeTool(toolCall) ==
    IF ~getTool(toolCall.name)
    THEN {[success |-> FALSE, result |-> <<>>, error |-> <<NotFoundError(toolCall)>>]}
    ELSE {[success |-> TRUE, result |-> <<ToolResult(toolCall)>>, error |-> <<>>],
          [success |-> FALSE, result |-> <<>>, error |-> <<ThrownError(toolCall)>>]}

\* obj[key] = value on a JavaScript object, kept as its entries in insertion order.
ObjectSet(obj, key, value) ==
    IF \E i \in 1..Len(obj) : obj[i].key = key
    THEN [i \in 1..Len(obj) |-> IF obj[i].key = key THEN [key |-> key, value |-> value] ELSE obj[i]]
    ELSE Append(obj, [key |-> key, value |-> value])

NoPar == [phase |-> "idle", toolCalls |-> <<>>, status |-> <<>>, results |-> <<>>, errors |-> <<>>,
          success |-> FALSE]

\* executeToolsParallel up to Promise.all: every call is started.
ParallelStart(toolCalls) ==
    [phase |-> "running", toolCalls |-> toolCalls,
     status |-> [i \in 1..Len(toolCalls) |-> "running"],
     results |-> <<>>, errors |-> <<>>, success |-> FALSE]

\* The continuation of call i after `await executeTool(toolCall)`.
ParallelRecord(p, i, outcome) ==
    IF outcome.success
    THEN [p EXCEPT !.status[i] = "ok",
                   !.results = ObjectSet(@, p.toolCalls[i].name, outcome.result)]
    ELSE [p EXCEPT !.status[i] = "failed",
                   !.errors = ObjectSet(@, p.toolCalls[i].name, outcome.error)]

\* Faulty variant of ParallelSettled: the join ends as soon as one call has failed.
ParallelSettledOnFailure(p) ==
    \/ \A i \in 1..Len(p.status) : p.status[i] # "running"
    \/ \E i \in 1..Len(p.status) : p.status[i] = "failed"

\* await Promise.all(executionPromises): no promise rejects, so all must fulfil.
ParallelSettled(p) == \A i \in 1..Len(p.status) : p.status[i] # "running"

ParallelAggregate(p) ==
    [p EXCEPT !.phase = "joined", !.success = (Len(p.errors) = 0)]

----------------------------------------------------------------------------
(* Response protocol parser *)

ThinkingHeader == "### THINKING"
ActionHeader == "### ACTION"
ResponseHeader == "### RESPONSE"

NotJson == [ok |-> FALSE, isArray |-> FALSE, items |-> <<>>]

JsonCall(name, parameters) == [wellFormed |-> TRUE, call |-> ToolCall(name, parameters)]

\* JSON.parse of one token of model text: the JSON documents the model can emit.
JsonParse(s) ==
    CASE s = "{read}" -> [ok |-> TRUE, isArray |-> FALSE, items |-> <<JsonCall("read", "a")>>]
      [] s = "{big}" -> [ok |-> TRUE, isArray |-> FALSE, items |-> <<JsonCall("read", "big")>>]
      [] s = "{nope}" -> [ok |-> TRUE, isArray |-> FALSE, items |-> <<JsonCall("nope", "a")>>]
      [] s = "[read,read]" ->
            [ok |-> TRUE, isArray |-> TRUE, items |-> <<JsonCall("read", "a"), JsonCall("read", "b")>>]
      [] s = "[read,nope]" ->
            [ok |-> TRUE, isArray |-> TRUE, items |-> <<JsonCall("read", "a"), JsonCall("nope", "a")>>]
      [] s = "[read]" -> [ok |-> TRUE, isArray |-> TRUE, items |-> <<JsonCall("read", "a")>>]
      [] s = "{}" ->
            [ok |-> TRUE, isArray |-> FALSE, items |-> <<[wellFormed |-> FALSE, call |-> ToolCall("", "")]>>]
      [] OTHER -> NotJson

\* A JSON text as one token of model text, given by its syntax: an array of
\* values, an object with its keys, or another value (string, number, null).
JsonObject(keys, name, parameters) ==
    [type |-> "object", keys |-> keys, name |-> name, parameters |-> parameters, items |-> <<>>]

JsonArray(items) == [type |-> "array", keys |-> {}, name |-> "", parameters |-> "", items |-> items]

JsonOther == [type |-> "other", keys |-> {}, name |-> "", parameters |-> "", items |-> <<>>]

JsonText(value) == [s |-> "json", json |-> value]

\* Faulty variant of JsonItem: any object counts as a call.
JsonItemAnyObject(value) ==
    IF value.type = "object"
    THEN JsonCall(value.name, value.parameters)
    ELSE [wellFormed |-> FALSE, call |-> ToolCall("", "")]

\* typeof toolObj === 'object' && toolObj !== null && 'name' in toolObj && 'parameters' in toolObj
JsonItem(value) ==
    IF value.type = "object" /\ {"name", "parameters"} \subseteq value.keys
    THEN JsonCall(value.name, value.parameters)
    ELSE [wellFormed |-> FALSE, call |-> ToolCall("", "")]

\* JSON.parse of a token: of a JSON text given by its syntax, or of a text by name.
JsonOf(tok) ==
    IF "json" \in DOMAIN tok
    THEN IF tok.json.type = "array"
         THEN [ok |-> TRUE, isArray |-> TRUE,
               items |-> [i \in DOMAIN tok.json.items |-> JsonItem(tok.json.items[i])]]
         ELSE [ok |-> TRUE, isArray |-> FALSE, items |-> <<JsonItem(tok.json)>>]
    ELSE JsonParse(tok.s)

\* An empty line.
Blank == [s |-> ""]

IsBlank(tok) == tok.s = ""

\* String.prototype.trim on lines: the empty lines at both ends are dropped.
RECURSIVE Trim(_)
Trim(text) ==
    IF text = <<>> THEN <<>>
    ELSE IF IsBlank(Head(text)) THEN Trim(Tail(text))
    ELSE IF IsBlank(text[Len(text)]) THEN Trim(SubSeq(text, 1, Len(text) - 1))
    ELSE text

\* The first header line `header` of the text that a line follows, 0 when there is none.
HeaderIndex(content, header) ==
    LET found == {i \in 1..(Len(content) - 1) : content[i].s = header}
    IN  IF found = {} THEN 0 ELSE CHOOSE i \in found : \A j \in found : i <= j

\* Faulty variant of BodyStart: the capture begins on the line after the header.
BodyStartNextLine(content, at) == at + 1

\* Where the capture after the header at index `at` begins: `\s*\n` is greedy, it
\* takes the empty lines after the header and ends at the last newline it can,
\* before the first line that is not empty or else before the last line.
BodyStart(content, at) ==
    LET filled == {i \in (at + 1)..Len(content) : ~IsBlank(content[i])}
    IN  IF filled = {} THEN Len(content) ELSE CHOOSE i \in filled : \A j \in filled : i <= j

\* The lazy capture after the header at index `at`: it runs to the line before the
\* first of the `stops` headers that is not the line the capture begins with (whose
\* newline the header pattern has consumed), or else to the end of the text.
SectionBody(content, at, stops) ==
    LET start == BodyStart(content, at)
        ends == {i \in (start + 1)..Len(content) : content[i].s \in stops}
        last == IF ends = {} THEN Len(content)
                ELSE (CHOOSE i \in ends : \A j \in ends : i <= j) - 1
    IN  SubSeq(content, start, last)

\* The tool calls of a parsed JSON document that carry both name and parameters.
WellFormedCalls(json) ==
    LET kept == SelectSeq(json.items, LAMBDA item : item.wellFormed)
    IN  [i \in 1..Len(kept) |-> kept[i].call]

\* The action section of the text, <<>> when there is none.
ActionBody(content) ==
    LET at == HeaderIndex(content, ActionHeader)
    IN  IF at = 0 THEN <<>> ELSE SectionBody(content, at, {ResponseHeader})

ParsedAction(content) ==
    LET at == HeaderIndex(content, ActionHeader)
        body == Trim(ActionBody(content))
        json == IF Len(body) = 1 THEN JsonOf(body[1]) ELSE NotJson
    IN  IF at = 0 \/ ~json.ok THEN <<>> ELSE WellFormedCalls(json)

\* Faulty variant of ParsedResponse: a single call is exposed as an array of one.
ParsedResponseAlwaysArray(content, calls) ==
    LET th == HeaderIndex(content, ThinkingHeader)
        re == HeaderIndex(content, ResponseHeader)
    IN  [isNull |-> th = 0 /\ re = 0 /\ calls = <<>>,
         hasThinking |-> th # 0,
         thinking |-> IF th = 0 THEN <<>> ELSE SectionBody(content, th, {ActionHeader, ResponseHeader}),
         hasAction |-> calls # <<>>,
         isArray |-> Len(calls) >= 1,
         action |-> calls,
         hasResponse |-> re # 0,
         response |-> IF re = 0 THEN <<>>
                      ELSE SubSeq(content, BodyStart(content, re), Len(content))]

\* The result object of parseToolCall, given the calls found in the action section:
\* action holds them (one: a scalar action, more: an array).
ParsedResponse(content, calls) ==
    LET th == HeaderIndex(content, ThinkingHeader)
        re == HeaderIndex(content, ResponseHeader)
    IN  [isNull |-> th = 0 /\ re = 0 /\ calls = <<>>,
         hasThinking |-> th # 0,
         thinking |-> IF th = 0 THEN <<>> ELSE SectionBody(content, th, {ActionHeader, ResponseHeader}),
         hasAction |-> calls # <<>>,
         isArray |-> Len(calls) > 1,
         action |-> calls,
         hasResponse |-> re # 0,
         response |-> IF re = 0 THEN <<>>
                      ELSE SubSeq(content, BodyStart(content, re), Len(content))]

\* parseToolCall, the action section holding JSON.
parseToolCall(content) == ParsedResponse(content, ParsedAction(content))

----------------------------------------------------------------------------
(* Response protocol parser, the action section holding tag-delimited blocks *)

OpenTag(n) == [s |-> "<>", tag |-> "open", n |-> n]

CloseTag(n) == [s |-> "</>", tag |-> "close", n |-> n]

IsOpenTag(tok) == "tag" \in DOMAIN tok /\ tok.tag = "open"

IsCloseTag(tok, n) == "tag" \in DOMAIN tok /\ tok.tag = "close" /\ tok.n = n

\* matchAll(/<(\w+)>[\s\S]*?<\/\1>/g) from position pos: the leftmost opening tag
\* that has a closing tag of its name after it, up to the first such closing tag;
\* the search goes on after the match.
RECURSIVE TagMatches(_, _)
TagMatches(text, pos) ==
    LET opens == {i \in pos..Len(text) :
                     /\ IsOpenTag(text[i])
                     /\ \E j \in (i + 1)..Len(text) : IsCloseTag(text[j], text[i].n)}
    IN  IF opens = {} THEN <<>>
        ELSE LET i == CHOOSE x \in opens : \A y \in opens : x <= y
                 closes == {j \in (i + 1)..Len(text) : IsCloseTag(text[j], text[i].n)}
                 j == CHOOSE x \in closes : \A y \in closes : x <= y
             IN  <<[from |-> i, to |-> j]>> \o TagMatches(text, j + 1)

\* A parameter value: a string (its text) or an array of strings.
StringValue(text) == [array |-> FALSE, v |-> text, items |-> <<>>]

ArrayValue(items) == [array |-> TRUE, v |-> <<>>, items |-> items]

\* if (parameters[paramName]): an empty string is falsy, an array is not.
Truthy(value) == value.array \/ value.v # <<>>

ObjectHas(obj, key) == \E i \in 1..Len(obj) : obj[i].key = key

ObjectGet(obj, key) == obj[CHOOSE i \in 1..Len(obj) : obj[i].key = key].value

\* Faulty variant of ParameterAdd: a later occurrence replaces an earlier one.
ParameterOverwrite(parameters, paramName, paramValue) ==
    ObjectSet(parameters, paramName, StringValue(paramValue))

\* One parameter match: a repeated name collects its values into an array.
ParameterAdd(parameters, paramName, paramValue) ==
    IF ObjectHas(parameters, paramName) /\ Truthy(ObjectGet(parameters, paramName))
    THEN LET old == ObjectGet(parameters, paramName) IN
         IF old.array
         THEN ObjectSet(parameters, paramName, ArrayValue(Append(old.items, paramValue)))
         ELSE ObjectSet(parameters, paramName, ArrayValue(<<old.v, paramValue>>))
    ELSE ObjectSet(parameters, paramName, StringValue(paramValue))

\* The parameters of one tool block, from the matches found in its content.
RECURSIVE TagParameters(_, _, _)
TagParameters(toolContent, matches, parameters) ==
    IF matches = <<>> THEN parameters
    ELSE LET match == Head(matches)
             paramValue == Trim(SubSeq(toolContent, match.from + 1, match.to - 1))
         IN  TagParameters(toolContent, Tail(matches),
                           ParameterAdd(parameters, toolContent[match.from].n, paramValue))

\* One tool block: its name from the opening tag, its parameters from its content.
TagCall(actionContent, match) ==
    LET toolContent == SubSeq(actionContent, match.from + 1, match.to - 1)
    IN  ToolCall(actionContent[match.from].n,
                 TagParameters(toolContent, TagMatches(toolContent, 1), <<>>))

ParsedActionTags(content) ==
    LET actionContent == ActionBody(content)
        xmlMatches == TagMatches(actionContent, 1)
    IN  [i \in 1..Len(xmlMatches) |-> TagCall(actionContent, xmlMatches[i])]

\* parseToolCall, the action section holding tag-delimited blocks.
parseToolCallTags(content) == ParsedResponse(content, ParsedActionTags(content))

----------------------------------------------------------------------------
(* Orchestration loop: handleRecursiveToolCalling and its callers.          *)
(* The loop is cut at its awaits; one action runs from one await to the     *)
(* next. The operators below work on the world w: the history h, the loops  *)
(* and the App state they read and write.                                   *)

CancelledMessage == Text("Request cancelled by user.")

LimitMessage == Text("Maximum iteration limit reached. Please try a more specific query.")

IdleLoop ==
    [pc |-> "idle", kind |-> "none", iteration |-> 0, fetches |-> 0,
     assistantResponse |-> <<>>, stream |-> <<>>, toolCall |-> <<>>, par |-> NoPar,
     after |-> "none", base |-> 0, exit |-> "none", result |-> <<>>]

World ==
    [h |-> conversationHistory, loops |-> loops, isLoading |-> isLoading,
     isInterruptible |-> isInterruptible, isCancelledRef |-> isCancelledRef,
     showModal |-> showModal, error |-> error, responses |-> responses,
     summarizing |-> summarizing, blocked |-> FALSE]

Becomes(w) ==
    /\ conversationHistory' = w.h
    /\ loops' = w.loops
    /\ isLoading' = w.isLoading
    /\ isInterruptible' = w.isInterruptible
    /\ isCancelledRef' = w.isCancelledRef
    /\ showModal' = w.showModal
    /\ error' = w.error
    /\ responses' = w.responses
    /\ ~w.blocked
    /\ summarizing' = w.summarizing
    /\ UNCHANGED <<lastCall, tx, par, returned, evaluation>>

\* The finally block of handleSubmit and of handleInitializeProject.
TurnEnd(w) == [w EXCEPT !.isLoading = FALSE, !.isInterruptible = FALSE]

\* A return of handleRecursiveToolCalling at `exit`, back to its caller.
Return(w, l, exit, result) ==
    TurnEnd([w EXCEPT !.loops[l].pc = "returned", !.loops[l].exit = exit,
                      !.loops[l].result = result, !.loops[l].stream = <<>>,
                      !.isInterruptible = FALSE])

\* An error leaving handleRecursiveToolCalling: the caller's catch sets error.
Throw(w, l) ==
    TurnEnd([w EXCEPT !.loops[l].pc = "threw", !.loops[l].exit = "threw",
                      !.loops[l].stream = <<>>, !.error = TRUE])

\* Faulty variant of StreamRejected: every rejection is taken for a cancellation.
StreamRejectedAsCancelled(w, l) == Return(w, l, "cancelled in stream", CancelledMessage)

\* The catch around invokeLLMWithStream.
StreamRejected(w, l) ==
    IF w.isCancelledRef THEN Return(w, l, "cancelled in stream", CancelledMessage)
    ELSE Throw(w, l)

\* Faulty variant of LoopContinues: the ceiling test is off by one.
LoopContinuesInclusive(iteration) == iteration <= maxIterations

\* while (iteration < maxIterations)
LoopContinues(iteration) == iteration < maxIterations

\* Faulty variant of EnterIteration: the model is called twice in an iteration.
EnterIterationTwoCalls(w, l) ==
    IF LoopContinues(w.loops[l].iteration)
    THEN IF w.isCancelledRef
         THEN Return(w, l, "cancelled at head", CancelledMessage)
         ELSE [w EXCEPT !.loops[l].iteration = @ + 1,
                        !.loops[l].assistantResponse = <<>>,
                        !.loops[l].fetches = @ + 2,
                        !.loops[l].pc = "fetch",
                        !.h = startAppendToken(w.h)]
    ELSE Return([w EXCEPT !.isCancelledRef = FALSE], l, "limit", LimitMessage)

\* The head of the while loop up to the await of the model call.
EnterIteration(w, l) ==
    IF LoopContinues(w.loops[l].iteration)
    THEN IF w.isCancelledRef
         THEN Return(w, l, "cancelled at head", CancelledMessage)
         ELSE IF startAppendTokenThrows(w.h)
              THEN Throw([w EXCEPT !.loops[l].iteration = @ + 1], l)
              ELSE [w EXCEPT !.loops[l].iteration = @ + 1,
                             !.loops[l].assistantResponse = <<>>,
                             !.loops[l].fetches = @ + 1,
                             !.loops[l].pc = "fetch",
                             !.h = startAppendToken(w.h)]
    ELSE Return([w EXCEPT !.isCancelledRef = FALSE], l, "limit", LimitMessage)

\* The entry of handleRecursiveToolCalling.
StartLoop(w, l) ==
    EnterIteration([w EXCEPT !.isCancelledRef = FALSE, !.isInterruptible = TRUE], l)

\* Faulty variant of SingleFeedback: the failed call is left out of the message.
SingleFeedbackWithoutCall(toolCall, outcome) ==
    IF outcome.success
    THEN Text("Tool execution result:") \o outcome.result
    ELSE Text("Tool failed with error:") \o outcome.error
         \o Text("try again with the SAME tool")

\* The feedback message of a single dispatch.
SingleFeedback(toolCall, outcome) ==
    IF outcome.success
    THEN Text("Tool execution result:") \o outcome.result
    ELSE Text("Tool failed with error:") \o outcome.error
         \o Text("try again with the SAME tool") \o <<toolCall>>

\* The feedback message of a parallel dispatch.
ParallelFeedback(p) ==
    IF p.success
    THEN Text("Parallel tool execution completed successfully:") \o p.results
    ELSE Text("Parallel tool execution completed with errors:") \o p.results \o p.errors
         \o Text("Please analyze these errors and try again")

\* After the feedback of a dispatch: cancellation is looked at, then the loop goes round.
AfterDispatch(w, l) ==
    IF w.isCancelledRef
    THEN Return(w, l, "cancelled after dispatch", CancelledMessage)
    ELSE EnterIteration(w, l)

\* What follows `await conversationHistory.addMessageWithSummarization(...)`: after
\* the feedback of a dispatch, in handleSubmit, in initializeProject.
Continue(w, l, after) ==
    CASE after = "feedback" -> AfterDispatch(w, l)
      [] after = "submit" -> StartLoop([w EXCEPT !.isLoading = TRUE], l)
      [] after = "initialize" -> StartLoop(w, l)

\* await conversationHistory.addMessageWithSummarization(role, content): the message
\* is added; when the context is too large the summarize tool is awaited, and the
\* step is not taken (blocked) while another summarization is outstanding.
addMessageWithSummarization(w, l, role, content, after) ==
    LET added == [w EXCEPT !.h = addMessage(w.h, role, content)]
    IN  IF summarizeHistoryNeeded(added.h)
        THEN IF added.summarizing.active
             THEN [added EXCEPT !.blocked = TRUE]
             ELSE [added EXCEPT !.summarizing = SummarizationStarted(added.h, l),
                                !.loops[l].pc = "summarize",
                                !.loops[l].after = after]
        ELSE Continue(added, l, after)

\* Faulty variant of Feedback: the tool of a single dispatch is run again, as
\* one more iteration.
FeedbackAndRetry(w, l, message) ==
    IF w.loops[l].toolCall # <<>>
    THEN [w EXCEPT !.h = addMessage(w.h, "user", message),
                   !.loops[l].iteration = @ + 1, !.loops[l].pc = "tool"]
    ELSE addMessageWithSummarization([w EXCEPT !.loops[l].par = NoPar], l, "user", message, "feedback")

\* After a dispatch: the feedback message is added, then cancellation is looked
\* at, then the loop goes round.
Feedback(w, l, message) ==
    addMessageWithSummarization([w EXCEPT !.loops[l].toolCall = <<>>, !.loops[l].par = NoPar],
                                l, "user", message, "feedback")

\* Faulty variant of ShouldDispatch: a final answer in the text makes the iteration terminal.
ShouldDispatchUnlessResponse(parsedResponse) ==
    parsedResponse.hasAction /\ ~parsedResponse.hasResponse

\* if (parsedResponse?.action)
ShouldDispatch(parsedResponse) == parsedResponse.hasAction

\* Faulty variant of FinalResult: the body of the final-answer section is returned.
FinalResultResponseBody(assistantResponse) == parseToolCall(assistantResponse).response

\* return assistantResponse
FinalResult(assistantResponse) == assistantResponse

\* From the end of the stream to the next await or return: commit, parse, and
\* either start the dispatch or return the final response.
StreamCompleted(w, l) ==
    LET text == w.loops[l].assistantResponse
        parsedResponse == parseToolCall(text)
        committed == [w EXCEPT !.h = commitAppendToken(w.h), !.loops[l].stream = <<>>]
    IN  IF commitAppendTokenThrows(w.h) THEN Throw(w, l)
        ELSE IF ShouldDispatch(parsedResponse)
        THEN IF parsedResponse.isArray
             THEN [committed EXCEPT !.loops[l].pc = "parallel",
                                    !.loops[l].par = ParallelStart(parsedResponse.action)]
             ELSE LET toolCall == parsedResponse.action[1] IN
                  IF getTool(toolCall.name)
                  THEN [committed EXCEPT !.loops[l].pc = "tool",
                                         !.loops[l].toolCall = <<toolCall>>]
                  ELSE Feedback(committed, l,
                                SingleFeedback(toolCall, CHOOSE o \in executeTool(toolCall) : TRUE))
        ELSE Return([committed EXCEPT !.isCancelledRef = FALSE], l, "final", FinalResult(text))

----------------------------------------------------------------------------
(* The application: user input, menu, turns (specification Spec) *)

\* The assistant texts a model call can stream, one fragment per line.
Templates ==
    {<<ResponseHeader, "answer">>,
     <<ActionHeader, "[read,nope]">>,
     <<ActionHeader, "{big}", ResponseHeader, "answer">>}

\* `template` as streamed in iteration `it` of turn `turn`: two fragments, the
\* first line and the rest.
Stream(template, turn, it) ==
    LET text == [i \in 1..Len(template) |-> Tok(template[i], turn, it)]
    IN  <<SubSeq(text, 1, 1), SubSeq(text, 2, Len(text))>>

AppInit ==
    /\ loops = [l \in 1..MaxTurns |-> IdleLoop]
    /\ isLoading = FALSE
    /\ isInterruptible = FALSE
    /\ isCancelledRef = FALSE
    /\ showModal = FALSE
    /\ error = FALSE
    /\ responses = 0

Init ==
    /\ conversationHistory = NewHistory(Text("system prompt"))
    /\ lastCall = Call("new", FALSE, FALSE)
    /\ tx = NoTx
    /\ summarizing = NoSummarization
    /\ returned = NoReturned
    /\ evaluation = NoEvaluation
    /\ par = NoPar
    /\ AppInit

\* The number of the next turn to start, 0 when the run's turns are used up.
NextTurn ==
    LET idle == {l \in 1..MaxTurns : loops[l].pc = "idle"}
    IN  IF idle = {} THEN 0 ELSE CHOOSE l \in idle : \A k \in idle : l <= k

Running(l) ==
    \/ loops[l].pc \in {"fetch", "read", "tool", "parallel"}
    \/ loops[l].pc = "summarize" /\ loops[l].after = "feedback"

\* Enter in the text input: handleSubmit.
handleSubmit ==
    /\ ~error /\ ~showModal /\ ~isLoading
    /\ NextTurn # 0
    /\ LET l == NextTurn
           w == [World EXCEPT !.loops[l].kind = "submit",
                              !.loops[l].base = Len(conversationHistory.messages)]
       IN  Becomes(addMessageWithSummarization(w, l, "user", Text("input"), "submit"))

\* Escape: closes the menu, or requests cancellation of the running request.
PressEscape ==
    /\ \/ showModal /\ showModal' = FALSE /\ UNCHANGED isCancelledRef
       \/ ~showModal /\ isLoading /\ isInterruptible /\ ~isCancelledRef
          /\ isCancelledRef' = TRUE /\ UNCHANGED showModal
    /\ UNCHANGED <<conversationHistory, loops, isLoading, isInterruptible, error, responses>>
    /\ UNCHANGED <<lastCall, tx, par, returned, evaluation, summarizing>>

\* Ctrl+P: opens the menu.
OpenModal ==
    /\ ~showModal
    /\ showModal' = TRUE
    /\ UNCHANGED <<conversationHistory, loops, isLoading, isInterruptible, isCancelledRef, error,
                   responses>>
    /\ UNCHANGED <<lastCall, tx, par, returned, evaluation, summarizing>>

\* Menu entry 'Clear session'.
SelectClear ==
    /\ ~error /\ showModal
    /\ conversationHistory' = clear(conversationHistory)
    /\ summarizing' = Relocate(summarizing, conversationHistory.messages,
                               MovedByFilter(conversationHistory.messages))
    /\ showModal' = FALSE
    /\ UNCHANGED <<loops, isLoading, isInterruptible, isCancelledRef, error, responses>>
    /\ UNCHANGED <<lastCall, tx, par, returned, evaluation>>

\* Menu entry 'Initialize project': handleInitializeProject up to its dynamic import.
SelectInitialize ==
    /\ ~error /\ showModal
    /\ NextTurn # 0
    /\ Becomes([World EXCEPT !.showModal = FALSE, !.isLoading = TRUE,
                             !.loops[NextTurn].kind = "initialize",
                             !.loops[NextTurn].pc = "import"])

\* The import has resolved: initializeProject adds its prompt and starts the loop.
InitializeProject(l) ==
    /\ loops[l].pc = "import"
    /\ Becomes(addMessageWithSummarization(
                    [World EXCEPT !.loops[l].base = Len(conversationHistory.messages)],
                    l, "user", Text("initialize project"), "initialize"))

\* invokeLLM has returned the response; the first read is issued.
FetchResolved(l) ==
    /\ loops[l].pc = "fetch"
    /\ responses < MaxResponses
    /\ \E template \in Templates :
          LET w == [World EXCEPT !.responses = @ + 1] IN
          Becomes(IF isCancelledRef THEN StreamRejected(w, l)
                  ELSE [w EXCEPT !.loops[l].pc = "read",
                                 !.loops[l].stream = Stream(template, l, loops[l].iteration)])

\* invokeLLM has failed (network, HTTP status).
FetchFailed(l) ==
    /\ loops[l].pc = "fetch"
    /\ Becomes(StreamRejected(World, l))

\* reader.read() has returned a fragment: onChunk, then the next read is issued.
ReadChunk(l) ==
    /\ loops[l].pc = "read"
    /\ loops[l].stream # <<>>
    /\ LET content == Head(loops[l].stream) IN
       Becomes(IF isCancelledRef THEN StreamRejected(World, l)
               ELSE [World EXCEPT !.loops[l].assistantResponse = @ \o content,
                                  !.loops[l].stream = Tail(@),
                                  !.h = IF appendTokenThrows(@) THEN @ ELSE appendToken(@, content)])

\* reader.read() has returned done.
ReadDone(l) ==
    /\ loops[l].pc = "read"
    /\ loops[l].stream = <<>>
    /\ Becomes(StreamCompleted(World, l))

\* reader.read() has failed.
ReadFailed(l) ==
    /\ loops[l].pc = "read"
    /\ Becomes(StreamRejected(World, l))

\* The 100 ms poll has seen the cancel flag and aborted the pending fetch or read.
Abort(l) ==
    /\ loops[l].pc \in {"fetch", "read"}
    /\ isCancelledRef
    /\ Becomes(StreamRejected(World, l))

\* The summarize tool has settled: the rest of summarizeHistoryIfNeeded, and what
\* follows the await of addMessageWithSummarization.
SummarizationSettledIn(l) ==
    /\ loops[l].pc = "summarize"
    /\ summarizing.active /\ summarizing.owner = l
    /\ \E outcome \in summarizeTool(summarizing.chars) :
          Becomes(Continue([World EXCEPT
                                !.h = SummarizationSettled(@, summarizing, outcome, Text("summary")),
                                !.summarizing = NoSummarization],
                           l, loops[l].after))

\* tool.execute of a single dispatch has settled.
ToolSettled(l) ==
    /\ loops[l].pc = "tool"
    /\ \E outcome \in executeTool(loops[l].toolCall[1]) :
          Becomes(Feedback(World, l, SingleFeedback(loops[l].toolCall[1], outcome)))

\* One call of a parallel dispatch has settled.
ParallelCallSettled(l) ==
    /\ loops[l].pc = "parallel"
    /\ \E i \in 1..Len(loops[l].par.toolCalls) :
        /\ loops[l].par.status[i] = "running"
        /\ \E outcome \in executeTool(loops[l].par.toolCalls[i]) :
              Becomes([World EXCEPT !.loops[l].par = ParallelRecord(@, i, outcome)])

\* Promise.all of a parallel dispatch has resolved.
ParallelJoined(l) ==
    /\ loops[l].pc = "parallel"
    /\ ParallelSettled(loops[l].par)
    /\ Becomes(Feedback(World, l, ParallelFeedback(ParallelAggregate(loops[l].par))))

Next ==
    \/ handleSubmit
    \/ PressEscape
    \/ OpenModal
    \/ SelectClear
    \/ SelectInitialize
    \/ \E l \in 1..MaxTurns : InitializeProject(l)
    \/ \E l \in 1..MaxTurns : FetchResolved(l)
    \/ \E l \in 1..MaxTurns : FetchFailed(l)
    \/ \E l \in 1..MaxTurns : ReadChunk(l)
    \/ \E l \in 1..MaxTurns : ReadDone(l)
    \/ \E l \in 1..MaxTurns : ReadFailed(l)
    \/ \E l \in 1..MaxTurns : Abort(l)
    \/ \E l \in 1..MaxTurns : ToolSettled(l)
    \/ \E l \in 1..MaxTurns : ParallelCallSettled(l)
    \/ \E l \in 1..MaxTurns : ParallelJoined(l)
    \/ \E l \in 1..MaxTurns : SummarizationSettledIn(l)

Spec == Init /\ [][Next]_vars

\* The 100 ms poll of invokeLLMWithStream goes on firing while a call is in
\* flight: a request that stays set is seen, and the call is aborted.
SpecAbort == Spec /\ \A l \in 1..MaxTurns : WF_vars(Abort(l))

----------------------------------------------------------------------------
(* One parallel dispatch of any list of calls (specification SpecPar) *)

ToolCalls == {ToolCall("read", "a"), ToolCall("read", "b"), ToolCall("glob", "a"), ToolCall("nope", "a")}

ParInit ==
    /\ par = NoPar
    /\ conversationHistory = NewHistory(Text("sys"))
    /\ lastCall = Call("new", FALSE, FALSE)
    /\ tx = NoTx
    /\ summarizing = NoSummarization
    /\ returned = NoReturned
    /\ evaluation = NoEvaluation
    /\ AppInit

executeToolsParallel ==
    /\ par.phase = "idle"
    /\ \E n \in 2..MaxCalls : \E toolCalls \in SeqsOfLen(ToolCalls, n) :
            par' = ParallelStart(toolCalls)
    /\ UNCHANGED <<storeVars, appVars, returned, evaluation>>

ParallelCallDone ==
    /\ par.phase = "running"
    /\ \E i \in 1..Len(par.toolCalls) :
        /\ par.status[i] = "running"
        /\ \E outcome \in executeTool(par.toolCalls[i]) : par' = ParallelRecord(par, i, outcome)
    /\ UNCHANGED <<storeVars, appVars, returned, evaluation>>

ParallelJoin ==
    /\ par.phase = "running"
    /\ ParallelSettled(par)
    /\ par' = ParallelAggregate(par)
    /\ UNCHANGED <<storeVars, appVars, returned, evaluation>>

ParNext == executeToolsParallel \/ ParallelCallDone \/ ParallelJoin

SpecPar == ParInit /\ [][ParNext]_vars

----------------------------------------------------------------------------
(* The store API called directly, in any order (specification SpecStore).   *)
(* lastCall records the call just made and how it ended; tx follows the     *)
(* sequence startAppendToken, appendToken*, commitAppendToken or            *)
(* cancelAppendToken while nothing else is called in between.               *)

Fragments == {<<>>, Text("a"), Text("b")}

StoreInit ==
    /\ conversationHistory \in {NewHistory(<<>>), NewHistory(Text("sys"))}
    /\ lastCall = Call("new", FALSE, FALSE)
    /\ tx = NoTx
    /\ summarizing = NoSummarization
    /\ returned = NoReturned
    /\ evaluation = NoEvaluation
    /\ par = NoPar
    /\ AppInit

StoreStart ==
    LET h == conversationHistory IN
    /\ UNCHANGED <<par, appVars, returned, evaluation, summarizing>>
    /\ lastCall' = Call("startAppendToken", startAppendTokenThrows(h), h.isAppending)
    /\ IF startAppendTokenThrows(h)
       THEN UNCHANGED <<conversationHistory, tx>>
       ELSE /\ conversationHistory' = startAppendToken(h)
            /\ tx' = [phase |-> "open", snap |-> h.messages, frags |-> <<>>]

StoreAppend(token) ==
    LET h == conversationHistory IN
    /\ UNCHANGED <<par, appVars, returned, evaluation, summarizing>>
    /\ Len(h.pendingTokenBuffer) + Len(token) <= MaxContent
    /\ lastCall' = Call("appendToken", appendTokenThrows(h), h.isAppending)
    /\ IF appendTokenThrows(h)
       THEN UNCHANGED <<conversationHistory, tx>>
       ELSE /\ conversationHistory' = appendToken(h, token)
            /\ tx' = IF tx.phase = "open" THEN [tx EXCEPT !.frags = @ \o token] ELSE NoTx

StoreCommit ==
    LET h == conversationHistory IN
    /\ UNCHANGED <<par, appVars, returned, evaluation, summarizing>>
    /\ lastCall' = Call("commitAppendToken", commitAppendTokenThrows(h), h.isAppending)
    /\ IF commitAppendTokenThrows(h)
       THEN UNCHANGED <<conversationHistory, tx>>
       ELSE /\ \A i \in 1..Len(commitAppendToken(h).messages) :
                    Len(commitAppendToken(h).messages[i].content) <= 2 * MaxContent
            /\ conversationHistory' = commitAppendToken(h)
            /\ tx' = IF tx.phase = "open" THEN [tx EXCEPT !.phase = "committed"] ELSE NoTx

StoreCancel ==
    LET h == conversationHistory IN
    /\ UNCHANGED <<par, appVars, returned, evaluation, summarizing>>
    /\ lastCall' = Call("cancelAppendToken", FALSE, h.isAppending)
    /\ conversationHistory' = cancelAppendToken(h)
    /\ tx' = IF tx.phase = "open" THEN [tx EXCEPT !.phase = "cancelled"] ELSE NoTx

StoreAddMessage(role, content) ==
    LET h == conversationHistory IN
    /\ UNCHANGED <<par, appVars, returned, evaluation, summarizing>>
    /\ Len(h.messages) < MaxMessages
    /\ lastCall' = Call("addMessage", FALSE, h.isAppending)
    /\ conversationHistory' = addMessage(h, role, content)
    /\ tx' = NoTx

StoreAddSystemMessage(content) ==
    LET h == conversationHistory IN
    /\ UNCHANGED <<par, appVars, returned, evaluation, summarizing>>
    /\ Len(h.messages) < MaxMessages
    /\ lastCall' = Call("addSystemMessage", FALSE, h.isAppending)
    /\ conversationHistory' = addSystemMessage(h, content)
    /\ tx' = NoTx

StoreClear ==
    LET h == conversationHistory IN
    /\ UNCHANGED <<par, appVars, returned, evaluation, summarizing>>
    /\ lastCall' = Call("clear", FALSE, h.isAppending)
    /\ conversationHistory' = clear(h)
    /\ tx' = NoTx

StoreNext ==
    \/ StoreStart
    \/ \E token \in Fragments : StoreAppend(token)
    \/ StoreCommit
    \/ StoreCancel
    \/ \E role \in {"user", "assistant"} : StoreAddMessage(role, Text("a"))
    \/ StoreAddSystemMessage(Text("sys2"))
    \/ StoreClear

SpecStore == StoreInit /\ [][StoreNext]_vars

----------------------------------------------------------------------------
(* The store with context-size summarization (specification SpecSum): any    *)
(* order of store calls, among them addMessageWithSummarization, whose call  *)
(* of the summarize tool is awaited while other calls are made. One          *)
(* summarization is outstanding at a time.                                   *)

\* The contents of the messages added: an ordinary text and a large one.
Contents == {Text("a"), Text("big")}

SumInit == StoreInit

SumCalled(op) == lastCall' = Call(op, FALSE, FALSE)

SumAddMessage(role) ==
    /\ Len(conversationHistory.messages) < MaxHistory
    /\ conversationHistory' = addMessage(conversationHistory, role, Text("a"))
    /\ SumCalled("addMessage")
    /\ UNCHANGED <<tx, summarizing, returned, evaluation, par, appVars>>

\* addMessageWithSummarization and addSystemMessageWithSummarization after the
\* message is in: to the await of the summarize tool when the context is too
\* large, and to their end otherwise.
SumSummarizeIfNeeded(added, moved, op, awaits) ==
    /\ conversationHistory' = added
    /\ IF summarizeHistoryNeeded(added)
       THEN /\ ~summarizing.active
            /\ summarizing' = SummarizationStarted(added, 0)
            /\ SumCalled(awaits)
       ELSE /\ summarizing' = moved
            /\ SumCalled(op)

SumAddMessageWithSummarization(role, content) ==
    /\ Len(conversationHistory.messages) < MaxHistory
    /\ SumSummarizeIfNeeded(addMessage(conversationHistory, role, content), summarizing,
                            "addMessageWithSummarization", "addMessageWithSummarization awaits")
    /\ UNCHANGED <<tx, returned, evaluation, par, appVars>>

\* addSystemMessage, alone or as the first half of addSystemMessageWithSummarization.
SumAddSystemMessage(content, withSummarization) ==
    LET h == conversationHistory
        moved == IF Len(h.messages) = 0 \/ h.messages[1].role # "system"
                 THEN Relocate(summarizing, h.messages, MovedByUnshift(h.messages))
                 ELSE summarizing
    IN
    /\ Len(h.messages) < MaxHistory
    /\ IF withSummarization
       THEN SumSummarizeIfNeeded(addSystemMessage(h, content), moved,
                                 "addSystemMessage", "addSystemMessageWithSummarization awaits")
       ELSE /\ conversationHistory' = addSystemMessage(h, content)
            /\ summarizing' = moved
            /\ SumCalled("addSystemMessage")
    /\ UNCHANGED <<tx, returned, evaluation, par, appVars>>

\* The summarize tool has settled: the rest of summarizeHistoryIfNeeded.
SumSettled ==
    /\ summarizing.active /\ summarizing.owner = 0
    /\ \E outcome \in summarizeTool(summarizing.chars) :
          /\ conversationHistory' =
                SummarizationSettled(conversationHistory, summarizing, outcome, Text("summary"))
          /\ SumCalled(outcome)
    /\ summarizing' = NoSummarization
    /\ UNCHANGED <<tx, returned, evaluation, par, appVars>>

SumClear ==
    /\ conversationHistory' = clear(conversationHistory)
    /\ summarizing' = Relocate(summarizing, conversationHistory.messages,
                               MovedByFilter(conversationHistory.messages))
    /\ SumCalled("clear")
    /\ UNCHANGED <<tx, returned, evaluation, par, appVars>>

\* A streaming transaction of one fragment: startAppendToken, appendToken.
SumStream ==
    /\ ~conversationHistory.isAppending
    /\ conversationHistory' = appendToken(startAppendToken(conversationHistory), Text("a"))
    /\ SumCalled("appendToken")
    /\ UNCHANGED <<tx, summarizing, returned, evaluation, par, appVars>>

SumCommit ==
    /\ ~commitAppendTokenThrows(conversationHistory)
    /\ LET committed == commitAppendToken(conversationHistory) IN
       /\ Len(committed.messages) <= MaxHistory
       /\ \A i \in 1..Len(committed.messages) : Len(committed.messages[i].content) <= MaxContent
       /\ conversationHistory' = committed
    /\ SumCalled("commitAppendToken")
    /\ UNCHANGED <<tx, summarizing, returned, evaluation, par, appVars>>

\* cancelAppendToken()
SumCancel ==
    /\ conversationHistory' = cancelAppendToken(conversationHistory)
    /\ SumCalled("cancelAppendToken")
    /\ UNCHANGED <<tx, summarizing, returned, evaluation, par, appVars>>

SumNext ==
    \/ \E role \in {"user", "assistant"} : SumAddMessage(role)
    \/ \E role \in {"user", "assistant"}, content \in Contents :
            SumAddMessageWithSummarization(role, content)
    \/ \E withSummarization \in BOOLEAN : SumAddSystemMessage(Text("sys2"), withSummarization)
    \/ SumSettled
    \/ SumClear
    \/ SumStream
    \/ SumCommit
    \/ SumCancel

SpecSum == SumInit /\ [][SumNext]_vars

----------------------------------------------------------------------------
(* Claims about the store API, checked under SpecStore *)

\* C4: after startAppendToken, appendToken(f1) .. appendToken(fn), commitAppendToken
\* with nothing in between, a non-empty concatenation f1..fn has been appended to
\* the content of the trailing message when that was an assistant message, and
\* otherwise is the content of exactly one new trailing assistant message; every
\* other message is as before; an empty concatenation leaves the history as it was.
C4_CommitWritesConcatenation ==
    tx.phase = "committed" =>
        LET m == conversationHistory.messages
            s == tx.snap
            f == tx.frags
            n == Len(s)
        IN  IF f = <<>> THEN m = s
            ELSE IF n > 0 /\ s[n].role = "assistant"
                 THEN /\ Len(m) = n
                      /\ m[n].role = "assistant"
                      /\ m[n].content = s[n].content \o f
                      /\ \A i \in 1..(n - 1) : m[i] = s[i]
                 ELSE /\ Len(m) = n + 1
                      /\ m[n + 1] = Message("assistant", f)
                      /\ \A i \in 1..n : m[i] = s[i]

\* C4 witness: a commit of two non-empty fragments onto a trailing assistant message.
C4_Witness ==
    /\ tx.phase = "committed"
    /\ tx.frags = Text("a") \o Text("b")
    /\ Len(tx.snap) > 0
    /\ tx.snap[Len(tx.snap)].role = "assistant"

\* C5: after startAppendToken and any number of appendToken calls, cancelAppendToken
\* leaves the messages exactly as they were before startAppendToken and leaves no
\* buffered text that a later commit could write.
C5_CancelLeavesHistory ==
    tx.phase = "cancelled" =>
        /\ conversationHistory.messages = tx.snap
        /\ conversationHistory.pendingTokenBuffer = <<>>
        /\ \/ commitAppendTokenThrows(conversationHistory)
           \/ commitAppendToken(conversationHistory).messages = tx.snap

\* C5 witness: a cancel after two non-empty fragments, on a history with messages.
C5_Witness ==
    /\ tx.phase = "cancelled"
    /\ Len(tx.frags) = 2
    /\ Len(tx.snap) = 2

\* C6 (as claimed): startAppendToken called while a transaction is active fails
\* with an error instead of starting a new transaction.
C6_StartWhileActiveThrows ==
    (lastCall.op = "startAppendToken" /\ lastCall.wasAppending) => lastCall.threw

----------------------------------------------------------------------------
(* Claims about parallel dispatch, checked under SpecPar *)

NumStatus(p, st) == Cardinality({i \in 1..Len(p.status) : p.status[i] = st})

\* C9 (as claimed): a parallel dispatch of n >= 2 calls, tool names not necessarily
\* distinct, accounts for every call: results has as many entries as calls
\* succeeded, errors as many as calls failed (n together), and success is true
\* exactly when no call failed.
C9_ParallelAccountsForEveryCall ==
    par.phase = "joined" =>
        /\ Len(par.results) = NumStatus(par, "ok")
        /\ Len(par.errors) = NumStatus(par, "failed")
        /\ Len(par.results) + Len(par.errors) = Len(par.toolCalls)
        /\ par.success <=> (NumStatus(par, "failed") = 0)

\* C10: the aggregate of a parallel dispatch is produced only after all n calls
\* have finished; every call is started, and a failed call neither ends the
\* join early nor leaves a sibling unfinished.
C10_ParallelJoinsAll ==
    /\ par.phase # "idle" => Len(par.status) = Len(par.toolCalls)
    /\ par.phase = "joined" =>
            \A i \in 1..Len(par.toolCalls) : par.status[i] \in {"ok", "failed"}

\* C10 witness: three calls joined, the first failed and its two siblings finished.
C10_Witness ==
    /\ par.phase = "joined"
    /\ par.status = <<"failed", "ok", "ok">>

----------------------------------------------------------------------------
(* A caller of getHistory() and what it does to the array it was given       *)
(* (specification SpecView).                                                 *)

\* The histories a store can hold when getHistory is called.
ViewHistories ==
    LET added == {Message(role, content) : role \in {"user", "assistant"},
                                           content \in {Text("a"), Text("b")}}
        logs == UNION {SeqsOfLen(added, n) : n \in 0..MaxMessages}
    IN  {[NewHistory(systemPrompt) EXCEPT !.messages = @ \o log] :
            systemPrompt \in {<<>>, Text("sys")}, log \in logs}

ViewInit ==
    /\ conversationHistory \in ViewHistories
    /\ lastCall = Call("new", FALSE, FALSE)
    /\ tx = NoTx
    /\ summarizing = NoSummarization
    /\ returned = NoReturned
    /\ evaluation = NoEvaluation
    /\ par = NoPar
    /\ AppInit

ViewFrame == UNCHANGED <<lastCall, tx, summarizing, par, appVars, evaluation>>

\* const history = store.getHistory()
ViewGetHistory ==
    /\ ~returned.active
    /\ returned' = [active |-> TRUE, refs |-> getHistory(conversationHistory),
                    reported |-> conversationHistory.messages]
    /\ UNCHANGED conversationHistory
    /\ ViewFrame

\* history.push(message)
ViewPush ==
    /\ returned.active
    /\ Len(returned.refs) <= MaxMessages
    /\ returned' = [returned EXCEPT !.refs = Append(@, Detached(Message("user", Text("x"))))]
    /\ UNCHANGED conversationHistory
    /\ ViewFrame

\* history.pop()
ViewPop ==
    /\ returned.active
    /\ returned.refs # <<>>
    /\ returned' = [returned EXCEPT !.refs = SubSeq(@, 1, Len(@) - 1)]
    /\ UNCHANGED conversationHistory
    /\ ViewFrame

\* history[i].content = ..., history[i].role = ...
ViewWrite(i, field, value) ==
    /\ returned.active
    /\ i \in 1..Len(returned.refs)
    /\ LET written == WriteThrough(conversationHistory, returned.refs, i, field, value) IN
       /\ conversationHistory' = written.h
       /\ returned' = [returned EXCEPT !.refs = written.refs]
    /\ ViewFrame

ViewNext ==
    \/ ViewGetHistory
    \/ ViewPush
    \/ ViewPop
    \/ \E i \in 1..(MaxMessages + 2) : ViewWrite(i, "content", Text("x"))
    \/ \E i \in 1..(MaxMessages + 2) : ViewWrite(i, "role", "user")

SpecView == ViewInit /\ [][ViewNext]_vars

----------------------------------------------------------------------------
(* The parser applied to assistant texts (specification SpecParse).         *)
(* A text is written out from a description of what the model means to      *)
(* say: the sections, the calls of the action section and their encoding.   *)

\* The program state outside the function that is applied on its own.
ProgramIdle ==
    /\ conversationHistory = NewHistory(Text("sys"))
    /\ lastCall = Call("new", FALSE, FALSE)
    /\ tx = NoTx
    /\ summarizing = NoSummarization
    /\ returned = NoReturned
    /\ par = NoPar
    /\ AppInit

ProgramFrame == UNCHANGED <<storeVars, returned, par, appVars>>

\* The values a JSON action section is made of: two calls, an object without
\* a name, a value that is no object.
JsonItems ==
    {JsonObject({"name", "parameters"}, "read", "a"),
     JsonObject({"name", "parameters"}, "glob", "b"),
     JsonObject({"parameters"}, "", "a"),
     JsonOther}

TagParameter(n, v) == [n |-> n, v |-> v]

TagBlock(name, params) == [name |-> name, params |-> params]

\* Tool blocks with at most one parameter, and blocks of one tool with
\* parameters that repeat, empty values among them.
PlainBlocks ==
    {TagBlock(name, params) :
        name \in {"read", "glob"},
        params \in {<<>>, <<TagParameter("path", Text("a"))>>, <<TagParameter("files", Text("b"))>>}}

RepeatedParameters ==
    {TagParameter("files", <<>>), TagParameter("files", Text("a")),
     TagParameter("files", Text("b")), TagParameter("path", Text("a"))}

RepeatingBlocks ==
    {TagBlock("aider", params) :
        params \in UNION {SeqsOfLen(RepeatedParameters, n) : n \in 2..MaxParams}}

\* What the action section holds: nothing, text that is no call, JSON (one
\* value, or an array of values), tool blocks.
ActionSources ==
    {[encoding |-> "none", items |-> <<>>], [encoding |-> "garbage", items |-> <<>>]}
    \cup {[encoding |-> "json value", items |-> <<item>>] : item \in JsonItems}
    \cup {[encoding |-> "json array", items |-> items] :
             items \in UNION {SeqsOfLen(JsonItems, n) : n \in 0..MaxCalls}}
    \cup {[encoding |-> "tags", items |-> items] :
             items \in UNION {SeqsOfLen(PlainBlocks, n) : n \in 0..MaxCalls}}
    \cup {[encoding |-> "tags", items |-> <<block>>] : block \in RepeatingBlocks}

\* The final-answer section: none, the header alone at the end of the text, or
\* the header line and the lines of the body after it.
ResponseSources ==
    {[present |-> FALSE, newline |-> FALSE, body |-> <<>>],
     [present |-> TRUE, newline |-> FALSE, body |-> <<>>]}
    \cup {[present |-> TRUE, newline |-> TRUE, body |-> body] :
             body \in {<<Blank>>, Text("answer"), <<Blank>> \o Text("answer"),
                       Text("answer") \o <<Blank>>, Text("answer") \o Text("more")}}

ParseSources ==
    {[thinking |-> thinking, lead |-> lead, action |-> action, response |-> response] :
        thinking \in BOOLEAN, lead \in BOOLEAN, action \in ActionSources,
        response \in ResponseSources}

RECURSIVE Flatten(_)
Flatten(texts) == IF texts = <<>> THEN <<>> ELSE Head(texts) \o Flatten(Tail(texts))

RenderParameter(p) == <<OpenTag(p.n)>> \o p.v \o <<CloseTag(p.n)>>

RenderBlock(block) ==
    <<OpenTag(block.name)>>
    \o Flatten([i \in DOMAIN block.params |-> RenderParameter(block.params[i])])
    \o <<CloseTag(block.name)>>

RenderAction(action) ==
    CASE action.encoding = "garbage" -> Text("garbage")
      [] action.encoding = "json value" -> <<JsonText(action.items[1])>>
      [] action.encoding = "json array" -> <<JsonText(JsonArray(action.items))>>
      [] action.encoding = "tags" ->
            Flatten([i \in DOMAIN action.items |-> RenderBlock(action.items[i])])

\* The assistant text of a description, line by line.
Render(source) ==
    (IF source.thinking THEN Text(ThinkingHeader) \o Text("thought") ELSE <<>>)
    \o (IF source.action.encoding = "none" THEN <<>>
        ELSE Text(ActionHeader) \o (IF source.lead THEN <<Blank>> ELSE <<>>)
             \o RenderAction(source.action))
    \o (IF source.response.present THEN Text(ResponseHeader) \o source.response.body ELSE <<>>)

ParseInit ==
    /\ ProgramIdle
    /\ \E source \in ParseSources :
          /\ source.action.encoding = "none" => ~source.lead
          /\ evaluation = [fn |-> "text", source |-> source, input |-> Render(source),
                           output |-> <<>>]

\* parseToolCall(content) of the JSON version.
ParseJson ==
    /\ evaluation.fn = "text"
    /\ evaluation' = [evaluation EXCEPT !.fn = "parseToolCall",
                                        !.output = parseToolCall(evaluation.input)]
    /\ ProgramFrame

\* parseToolCall(content) of the tag version.
ParseTags ==
    /\ evaluation.fn = "text"
    /\ evaluation' = [evaluation EXCEPT !.fn = "parseToolCallTags",
                                        !.output = parseToolCallTags(evaluation.input)]
    /\ ProgramFrame

ParseNext ==
    \/ ParseJson
    \/ ParseTags

SpecParse == ParseInit /\ [][ParseNext]_vars

----------------------------------------------------------------------------
(* Parameter coercion: convertParametersToTypes (specification SpecCoerce) *)

\* JavaScript values: strings, numbers (NaN among them), booleans, arrays.
Str(s) == [t |-> "string", s |-> s, n |-> 0, b |-> FALSE, items |-> <<>>]

Num(n) == [t |-> "number", s |-> "", n |-> n, b |-> FALSE, items |-> <<>>]

NaN == [t |-> "NaN", s |-> "", n |-> 0, b |-> FALSE, items |-> <<>>]

Bool(b) == [t |-> "boolean", s |-> "", n |-> 0, b |-> b, items |-> <<>>]

Arr(items) == [t |-> "array", s |-> "", n |-> 0, b |-> FALSE, items |-> items]

\* The text ["a","b"].
ArrayLiteral == "[\"a\",\"b\"]"

\* The texts a raw parameter value can be.
RawStrings == {"true", "TRUE", "True", "false", "1", "0", "2", "3", "", "abc", "a", ArrayLiteral}

\* String.prototype.toLowerCase
toLowerCase(s) ==
    CASE s \in {"TRUE", "True"} -> "true"
      [] OTHER -> s

\* Faulty variant of NumberOf: text that is no number gives 0.
NumberOrZero(v) ==
    CASE v.s = "1" -> Num(1)
      [] v.s = "2" -> Num(2)
      [] v.s = "3" -> Num(3)
      [] OTHER -> Num(0)

\* Number(v) of a string.
NumberOf(v) ==
    CASE v.s = "1" -> Num(1)
      [] v.s = "2" -> Num(2)
      [] v.s = "3" -> Num(3)
      [] v.s \in {"0", ""} -> Num(0)
      [] OTHER -> NaN

\* const convertBoolean = (v) => { lowerValue === 'true' || lowerValue === '1' }
convertBoolean(v) ==
    LET lowerValue == toLowerCase(v.s)
    IN  Bool(lowerValue = "true" \/ lowerValue = "1")

\* JSON.parse of a raw string: the value, or a syntax error.
JsonParseValue(s) ==
    CASE s = ArrayLiteral -> [ok |-> TRUE, value |-> Arr(<<Str("a"), Str("b")>>)]
      [] s \in {"1", "2", "3", "0"} -> [ok |-> TRUE, value |-> NumberOf(Str(s))]
      [] s \in {"true", "false"} -> [ok |-> TRUE, value |-> Bool(s = "true")]
      [] OTHER -> [ok |-> FALSE, value |-> Str("")]

\* A field of a schema: its type, inside its wrappers from the outermost in.
Field(wraps, type) == [wraps |-> wraps, type |-> type]

\* The type the conversion goes by: every ZodDefault at the outside is taken
\* off, then one ZodOptional.
RECURSIVE WithoutDefaults(_)
WithoutDefaults(typeNames) ==
    IF Head(typeNames) = "ZodDefault" THEN WithoutDefaults(Tail(typeNames)) ELSE typeNames

ActualType(field) ==
    LET typeNames == WithoutDefaults(field.wraps \o <<field.type>>)
    IN  IF Head(typeNames) = "ZodOptional" THEN typeNames[2] ELSE typeNames[1]

\* Faulty variant of ConvertArray: a string is always wrapped, never parsed.
ConvertArrayWrapOnly(value) ==
    IF value.t = "array" THEN value ELSE Arr(<<value>>)

\* The ZodArray branch.
ConvertArray(value) ==
    IF value.t = "string"
    THEN LET parsed == JsonParseValue(value.s)
         IN  IF parsed.ok /\ parsed.value.t = "array" THEN parsed.value ELSE Arr(<<value>>)
    ELSE IF value.t = "array" THEN value
    ELSE Arr(<<value>>)

\* Faulty variant of ConvertField: a string field is trimmed to a default when empty.
ConvertFieldDefaulting(value, field) ==
    IF value = Str("") THEN Str("default") ELSE value

\* The conversion of one value by the schema of its field.
ConvertField(value, field) ==
    LET actual == ActualType(field)
    IN  CASE actual = "ZodNumber" ->
                IF value.t = "array"
                THEN Arr([i \in DOMAIN value.items |-> NumberOf(value.items[i])])
                ELSE NumberOf(value)
          [] actual = "ZodBoolean" ->
                IF value.t = "array"
                THEN Arr([i \in DOMAIN value.items |-> convertBoolean(value.items[i])])
                ELSE convertBoolean(value)
          [] actual = "ZodArray" -> ConvertArray(value)
          [] OTHER -> value

convertParametersToTypes(parameters, schema) ==
    [i \in DOMAIN parameters |->
        [key |-> parameters[i].key,
         value |-> IF schema.isObject /\ parameters[i].key \in DOMAIN schema.shape
                   THEN ConvertField(parameters[i].value, schema.shape[parameters[i].key])
                   ELSE parameters[i].value]]

\* The wrappers the tools of the registry put around a field type:
\* none, .optional(), .default(x), .optional().default(x).
Wrappings == {<<>>, <<"ZodOptional">>, <<"ZodDefault">>, <<"ZodDefault", "ZodOptional">>}

\* A tool schema, all fields wrapped alike, or a schema that is no ZodObject.
Schemas ==
    {[isObject |-> isObject,
      shape |-> [count |-> Field(wraps, "ZodNumber"), flag |-> Field(wraps, "ZodBoolean"),
                 list |-> Field(wraps, "ZodArray"), name |-> Field(wraps, "ZodString"),
                 mode |-> Field(wraps, "ZodEnum")]] :
        isObject \in BOOLEAN, wraps \in Wrappings}

\* Raw values as the parser leaves them: a text, or an array of texts.
RawValues ==
    {Str(s) : s \in RawStrings}
    \cup {Arr(items) : items \in UNION {SeqsOfLen({Str(s) : s \in {"1", "2", "3", "TRUE", "0"}}, n) :
                                           n \in 0..MaxItems}}

ParameterNames == {"count", "flag", "list", "name", "mode", "extra"}

\* Raw parameter objects: none, one parameter of any value, two parameters.
RawParameters ==
    {<<>>}
    \cup {<<[key |-> k, value |-> v]>> : k \in ParameterNames, v \in RawValues}
    \cup {pair \in {<<[key |-> k1, value |-> Str(s1)], [key |-> k2, value |-> Str(s2)]>> :
                        k1 \in ParameterNames, k2 \in ParameterNames,
                        s1 \in {"1", ""}, s2 \in {"TRUE", "abc"}} :
             pair[1].key # pair[2].key}

CoerceInit ==
    /\ ProgramIdle
    /\ \E parameters \in RawParameters, schema \in Schemas :
          evaluation = [fn |-> "arguments",
                        source |-> [parameters |-> parameters, schema |-> schema],
                        input |-> parameters, output |-> <<>>]

\* const typedParameters = convertParametersToTypes(toolCall.parameters, tool.parameters)
Coerce ==
    /\ evaluation.fn = "arguments"
    /\ evaluation' = [evaluation EXCEPT
                         !.fn = "convertParametersToTypes",
                         !.output = convertParametersToTypes(evaluation.input,
                                                             evaluation.source.schema)]
    /\ ProgramFrame

CoerceNext == Coerce

SpecCoerce == CoerceInit /\ [][CoerceNext]_vars

----------------------------------------------------------------------------
(* The loop under its default ceiling (specification SpecLimit): the        *)
(* control of handleRecursiveToolCalling as handleSubmit calls it, without  *)
(* a third argument, the texts and the history left to Spec.                *)

\* The loop's locals and the flags it reads: where it stands, the iteration
\* counter, the model calls made, the messages it added, the cancel flag.
LoopEntered ==
    [pc |-> "head", iteration |-> 0, fetches |-> 0, added |-> 0,
     isCancelledRef |-> FALSE, exit |-> "none"]

\* await handleRecursiveToolCalling(provider, conversationHistory.getHistoryForLLM())
LimitInit ==
    /\ ProgramIdle
    /\ evaluation = [fn |-> "handleRecursiveToolCalling", source |-> <<>>,
                     input |-> DefaultMaxIterations, output |-> LoopEntered]

InLoop(pc) ==
    /\ evaluation.fn = "handleRecursiveToolCalling"
    /\ evaluation.output.pc = pc

LoopBecomes(loop) ==
    /\ evaluation' = [evaluation EXCEPT !.output = loop]
    /\ ProgramFrame

LoopReturns(loop, exit) == [loop EXCEPT !.pc = "returned", !.exit = exit]

\* Faulty variant of LimitContinues: the loop has no ceiling.
LimitContinuesAlways(loop, ceiling) == TRUE

\* while (iteration < maxIterations)
LimitContinues(loop, ceiling) == loop.iteration < ceiling

\* while (iteration < maxIterations) { if (isCancelledRef.current) return ...; iteration++; ... fetch
LimitHead ==
    /\ InLoop("head")
    /\ LET loop == evaluation.output
       IN  LoopBecomes(IF LimitContinues(loop, evaluation.input)
                       THEN IF loop.isCancelledRef
                            THEN LoopReturns(loop, "cancelled at head")
                            ELSE [loop EXCEPT !.iteration = @ + 1, !.fetches = @ + 1,
                                              !.pc = "fetch"]
                       ELSE LoopReturns([loop EXCEPT !.isCancelledRef = FALSE], "limit"))

\* The stream has ended: the text is committed as one message and parsed; a
\* tool call is dispatched, any other text is the final response.
LimitResponse(hasAction) ==
    /\ InLoop("fetch")
    /\ LET loop == [evaluation.output EXCEPT !.added = @ + 1]
       IN  LoopBecomes(IF hasAction
                       THEN [loop EXCEPT !.pc = "tool"]
                       ELSE LoopReturns([loop EXCEPT !.isCancelledRef = FALSE], "final"))

\* The catch around invokeLLMWithStream.
LimitStreamRejected ==
    /\ InLoop("fetch")
    /\ LoopBecomes(LoopReturns(evaluation.output,
                               IF evaluation.output.isCancelledRef
                               THEN "cancelled in stream" ELSE "threw"))

\* if (isCancelledRef.current) return 'Request cancelled by user.' after a dispatch
LimitAfterDispatch(loop) ==
    IF loop.isCancelledRef
    THEN LoopReturns(loop, "cancelled after dispatch")
    ELSE [loop EXCEPT !.pc = "head"]

\* The dispatch has settled: the feedback is added, with the summarize tool
\* awaited when the context is too large; then cancellation is looked at and
\* the loop goes round.
LimitToolSettled(summarizes) ==
    /\ InLoop("tool")
    /\ LET loop == [evaluation.output EXCEPT !.added = @ + 1]
       IN  LoopBecomes(IF summarizes
                       THEN [loop EXCEPT !.pc = "summarize"]
                       ELSE LimitAfterDispatch(loop))

\* The summarize tool has settled, with a summary or without.
LimitSummarizationSettled ==
    /\ InLoop("summarize")
    /\ LoopBecomes(LimitAfterDispatch(evaluation.output))

\* Escape while the turn is interruptible.
LimitPressEscape ==
    /\ evaluation.fn = "handleRecursiveToolCalling"
    /\ evaluation.output.pc \in {"head", "fetch", "tool", "summarize"}
    /\ ~evaluation.output.isCancelledRef
    /\ LoopBecomes([evaluation.output EXCEPT !.isCancelledRef = TRUE])

LimitNext ==
    \/ LimitHead
    \/ \E hasAction \in BOOLEAN : LimitResponse(hasAction)
    \/ LimitStreamRejected
    \/ \E summarizes \in BOOLEAN : LimitToolSettled(summarizes)
    \/ LimitSummarizationSettled
    \/ LimitPressEscape

SpecLimit == LimitInit /\ [][LimitNext]_vars

\* Every model call, every tool execution and every call of the summarize
\* tool finishes, and the loop goes on when it can.
SpecLimitFair ==
    /\ SpecLimit
    /\ WF_vars(LimitHead)
    /\ WF_vars(\E hasAction \in BOOLEAN : LimitResponse(hasAction))
    /\ WF_vars(\E summarizes \in BOOLEAN : LimitToolSettled(summarizes))
    /\ WF_vars(LimitSummarizationSettled)

----------------------------------------------------------------------------
(* Tools built with createTool (specification SpecTool) *)

\* The fields of the schema in the order of its declaration.
ShapeKeys == <<"count", "flag", "list", "name", "mode">>

\* The type test of one field on a value that is given.
FieldAccepts(field, value) ==
    CASE field.type = "ZodNumber" -> value.t = "number"
      [] field.type = "ZodBoolean" -> value.t = "boolean"
      [] field.type = "ZodArray" -> /\ value.t = "array"
                                    /\ \A i \in DOMAIN value.items : value.items[i].t = "string"
      [] field.type = "ZodString" -> value.t = "string"
      [] field.type = "ZodEnum" -> value.t = "string" /\ value.s \in {"a", "abc"}

\* The value .default(x) gives a field that is not given.
DefaultOf(field) ==
    CASE field.type = "ZodNumber" -> Num(0)
      [] field.type = "ZodBoolean" -> Bool(FALSE)
      [] field.type = "ZodArray" -> Arr(<<>>)
      [] field.type = "ZodString" -> Str("a")
      [] field.type = "ZodEnum" -> Str("a")

RECURSIVE Validated(_, _, _)
\* The object parse returns: the declared fields that are given or defaulted.
Validated(params, shape, keys) ==
    IF keys = <<>> THEN <<>>
    ELSE LET key == Head(keys)
             rest == Validated(params, shape, Tail(keys))
         IN  IF ObjectHas(params, key)
             THEN <<[key |-> key, value |-> ObjectGet(params, key)]>> \o rest
             ELSE IF "ZodDefault" \in {shape[key].wraps[i] : i \in DOMAIN shape[key].wraps}
                  THEN <<[key |-> key, value |-> DefaultOf(shape[key])]>> \o rest
                  ELSE rest

\* definition.parameters.parse(params) of an object schema: every declared field
\* is of its type when given, and is optional or defaulted when not given.
parse(params, schema) ==
    [ok |-> \A key \in DOMAIN schema.shape :
                IF ObjectHas(params, key)
                THEN FieldAccepts(schema.shape[key], ObjectGet(params, key))
                ELSE schema.shape[key].wraps # <<>>,
     value |-> Validated(params, schema.shape, ShapeKeys)]

\* A call of execute that has not been made yet.
NotCalled ==
    [pc |-> "not called", validatedParams |-> <<>>, bodyRuns |-> 0,
     settled |-> "pending", error |-> "none"]

\* Faulty variant of execute: the body is started with the parameters as given.
executeUnvalidated(params, schema) ==
    [NotCalled EXCEPT !.pc = "body", !.validatedParams = params, !.bodyRuns = 1]

\* execute: async (params) => { const validatedParams = definition.parameters.parse(params);
\*                              return await definition.execute(validatedParams); }
execute(params, schema) ==
    LET validatedParams == parse(params, schema)
    IN  IF validatedParams.ok
        THEN [NotCalled EXCEPT !.pc = "body", !.validatedParams = validatedParams.value,
                               !.bodyRuns = 1]
        ELSE [NotCalled EXCEPT !.pc = "settled", !.settled = "rejected", !.error = "ZodError"]

\* tool.execute(typedParameters) is about to be called with the converted parameters.
ToolInit ==
    /\ ProgramIdle
    /\ \E parameters \in RawParameters, schema \in Schemas :
          /\ schema.isObject
          /\ evaluation = [fn |-> "execute",
                           source |-> [parameters |-> parameters, schema |-> schema],
                           input |-> convertParametersToTypes(parameters, schema),
                           output |-> NotCalled]

\* const result = await tool.execute(typedParameters)
ToolExecute ==
    /\ evaluation.fn = "execute"
    /\ evaluation.output.pc = "not called"
    /\ evaluation' = [evaluation EXCEPT !.output = execute(evaluation.input, evaluation.source.schema)]
    /\ ProgramFrame

\* The body of the tool settles, and execute with it.
ToolBodySettled(outcome) ==
    /\ evaluation.fn = "execute"
    /\ evaluation.output.pc = "body"
    /\ evaluation' = [evaluation EXCEPT
                         !.output.pc = "settled",
                         !.output.settled = outcome,
                         !.output.error = IF outcome = "rejected" THEN "Error" ELSE "none"]
    /\ ProgramFrame

ToolNext ==
    \/ ToolExecute
    \/ \E outcome \in {"resolved", "rejected"} : ToolBodySettled(outcome)

SpecTool == ToolInit /\ [][ToolNext]_vars

----------------------------------------------------------------------------
(* The decoding of the stream in onChunk (specification SpecDecode) *)

\* The lines a stream is made of: a data record with content a or b, a data
\* record without content, a data record that is no JSON, the end marker, and
\* an empty line.
RecordKinds == {"a", "b", "no content", "malformed", "[DONE]", "empty"}

\* The text of the stream: each line as its two halves and its line break.
Piece(i, kind, part) == [i |-> i, kind |-> kind, part |-> part]

RECURSIVE StreamText(_, _)
StreamText(records, i) ==
    IF i > Len(records) THEN <<>>
    ELSE <<Piece(i, records[i], 1), Piece(i, records[i], 2), Piece(i, "\n", 0)>>
         \o StreamText(records, i + 1)

\* The text cut into fragments after the positions in `cuts`.
RECURSIVE Fragmented(_, _, _)
Fragmented(text, cuts, from) ==
    IF from > Len(text) THEN <<>>
    ELSE LET ends == {c \in cuts : c >= from}
             to == IF ends = {} THEN Len(text)
                   ELSE CHOOSE c \in ends : \A d \in ends : c <= d
         IN  <<SubSeq(text, from, to)>> \o Fragmented(text, cuts, to + 1)

\* buffer.split('\n'): the lines before each line break, and the rest.
RECURSIVE Split(_, _)
Split(text, line) ==
    IF text = <<>> THEN <<line>>
    ELSE IF Head(text).kind = "\n" THEN <<line>> \o Split(Tail(text), <<>>)
    ELSE Split(Tail(text), Append(line, Head(text)))

\* What a line is: a whole line of the stream, or something else (a part of one).
LineKind(line) ==
    IF /\ Len(line) = 2
       /\ line[1].part = 1 /\ line[2].part = 2
       /\ line[1].i = line[2].i
    THEN line[1].kind
    ELSE "other"

\* line.startsWith('data: ') && line !== 'data: [DONE]'
IsDataLine(line) == LineKind(line) \in {"a", "b", "no content", "malformed"}

\* for (const line of lines) { ... JSON.parse(line.slice(6)) ... } inside try/catch:
\* the content of each data line is added in turn; JSON.parse throws on a line
\* that is no JSON and the catch ends the loop.
RECURSIVE DecodeLines(_, _)
DecodeLines(lines, assistantResponse) ==
    IF lines = <<>> THEN assistantResponse
    ELSE LET line == Head(lines)
         IN  IF IsDataLine(line)
             THEN IF LineKind(line) = "malformed" THEN assistantResponse
                  ELSE DecodeLines(Tail(lines),
                                   IF LineKind(line) \in {"a", "b"}
                                   THEN Append(assistantResponse, LineKind(line))
                                   ELSE assistantResponse)
             ELSE DecodeLines(Tail(lines), assistantResponse)

\* async chunk => { buffer += chunk; const lines = buffer.split('\n');
\*                  buffer = lines.pop() || ''; for (const line of lines) ... }
onChunk(decoder, chunk) ==
    LET lines == Split(decoder.buffer \o chunk, <<>>)
    IN  [buffer |-> lines[Len(lines)],
         assistantResponse |-> DecodeLines(SubSeq(lines, 1, Len(lines) - 1),
                                           decoder.assistantResponse)]

\* let assistantResponse = ''; let buffer = '';
DecoderStarted == [buffer |-> <<>>, assistantResponse |-> <<>>]

\* The streams of a model call: up to MaxRecords lines, cut anywhere.
DecodeInit ==
    /\ ProgramIdle
    /\ \E n \in 1..MaxRecords :
          \E records \in SeqsOfLen(RecordKinds, n) :
             \E cuts \in SUBSET (1..(3 * n - 1)) :
                evaluation = [fn |-> "onChunk",
                              source |-> [records |-> records, cuts |-> cuts],
                              input |-> Fragmented(StreamText(records, 1), cuts, 1),
                              output |-> DecoderStarted]

\* reader.read() has returned a fragment: onChunk(decoder.decode(value)).
DecodeFragment ==
    /\ evaluation.fn = "onChunk"
    /\ evaluation.input # <<>>
    /\ evaluation' = [evaluation EXCEPT !.input = Tail(@),
                                        !.output = onChunk(@, Head(evaluation.input))]
    /\ ProgramFrame

DecodeNext == DecodeFragment

SpecDecode == DecodeInit /\ [][DecodeNext]_vars

----------------------------------------------------------------------------
(* The message list of a turn: what handleRecursiveToolCalling sends to the  *)
(* model, beside the store it also writes to. One turn runs at a time; the   *)
(* variable loops holds its record.                                          *)

\* getHistoryForLLM(): a new array of new { role, content } objects.
getHistoryForLLM(h) ==
    [i \in 1..Len(h.messages) |-> Message(h.messages[i].role, h.messages[i].content)]

\* Faulty variant of MessagesSent: the store is read again for every request.
MessagesSentFromStore(currentMessages, h) == getHistoryForLLM(h)

\* const request: LLMRequest = { messages: currentMessages, ... }
MessagesSent(currentMessages, h) == currentMessages

TurnIdle(turn) ==
    [pc |-> "idle", turn |-> turn, iteration |-> 0, currentMessages |-> <<>>, sent |-> <<>>,
     after |-> "none", feedback |-> <<>>, exit |-> "none"]

\* The head of the while loop up to the await of the model call.
TurnEnterIteration(loop, h) ==
    IF LoopContinues(loop.iteration)
    THEN [loop |-> [loop EXCEPT !.iteration = @ + 1, !.pc = "fetch",
                                !.sent = MessagesSent(loop.currentMessages, h)],
          h |-> startAppendToken(h)]
    ELSE [loop |-> [loop EXCEPT !.pc = "returned", !.exit = "limit"], h |-> h]

\* What follows `await conversationHistory.addMessageWithSummarization(...)`: in
\* handleSubmit the call of the loop with getHistoryForLLM(), whose entry copies
\* it; after a dispatch the push of the feedback message.
TurnContinue(loop, h) ==
    IF loop.after = "submit"
    THEN TurnEnterIteration([loop EXCEPT !.currentMessages = getHistoryForLLM(h)], h)
    ELSE TurnEnterIteration(
            [loop EXCEPT !.currentMessages = Append(@, Message("user", loop.feedback)),
                         !.feedback = <<>>], h)

\* await conversationHistory.addMessageWithSummarization('user', content)
TurnAdd(loop, content) ==
    LET added == addMessage(conversationHistory, "user", content)
        waiting == [loop EXCEPT !.feedback = content]
    IN  IF summarizeHistoryNeeded(added)
        THEN /\ conversationHistory' = added
             /\ summarizing' = SummarizationStarted(added, 0)
             /\ loops' = [waiting EXCEPT !.pc = "summarize"]
        ELSE /\ conversationHistory' = TurnContinue(waiting, added).h
             /\ loops' = TurnContinue(waiting, added).loop
             /\ UNCHANGED summarizing

TurnFrame ==
    UNCHANGED <<lastCall, tx, returned, evaluation, par, isLoading, isInterruptible,
                isCancelledRef, showModal, error, responses>>

TurnInit ==
    /\ conversationHistory = NewHistory(Text("system prompt"))
    /\ lastCall = Call("new", FALSE, FALSE)
    /\ tx = NoTx
    /\ summarizing = NoSummarization
    /\ returned = NoReturned
    /\ evaluation = NoEvaluation
    /\ par = NoPar
    /\ loops = TurnIdle(0)
    /\ isLoading = FALSE
    /\ isInterruptible = FALSE
    /\ isCancelledRef = FALSE
    /\ showModal = FALSE
    /\ error = FALSE
    /\ responses = 0

\* handleSubmit
TurnSubmit(content) ==
    /\ loops.pc \in {"idle", "returned"}
    /\ loops.turn < MaxTurns
    /\ TurnAdd([TurnIdle(loops.turn + 1) EXCEPT !.after = "submit"], content)
    /\ TurnFrame

\* The summarize tool has settled: the rest of summarizeHistoryIfNeeded, then what
\* follows the await in the caller.
TurnSummarizationSettled ==
    /\ loops.pc = "summarize"
    /\ summarizing.active
    /\ \E outcome \in summarizeTool(summarizing.chars) :
          LET settled == SummarizationSettled(conversationHistory, summarizing, outcome,
                                              Text("summary"))
          IN  /\ conversationHistory' = TurnContinue(loops, settled).h
              /\ loops' = TurnContinue(loops, settled).loop
    /\ summarizing' = NoSummarization
    /\ TurnFrame

\* The stream of the model call has ended: the fragments are committed to the
\* store, the text (when there is one) is pushed to currentMessages, and the turn
\* goes to a dispatch or returns the text.
TurnResponse(text, hasAction) ==
    /\ loops.pc = "fetch"
    /\ hasAction => text # <<>>
    /\ conversationHistory' =
          commitAppendToken(IF text # <<>> THEN appendToken(conversationHistory, text)
                            ELSE conversationHistory)
    /\ loops' = [loops EXCEPT
                    !.currentMessages = IF text # <<>> THEN Append(@, Message("assistant", text))
                                        ELSE @,
                    !.pc = IF hasAction THEN "tool" ELSE "returned",
                    !.after = "feedback",
                    !.exit = IF hasAction THEN "none" ELSE "final"]
    /\ UNCHANGED summarizing
    /\ TurnFrame

\* The dispatch has settled: its feedback message goes to the store and to
\* currentMessages.
TurnFeedback(content) ==
    /\ loops.pc = "tool"
    /\ TurnAdd(loops, content)
    /\ TurnFrame

\* handleModalSelect({ value: 'clear' })
TurnClear ==
    /\ conversationHistory' = clear(conversationHistory)
    /\ summarizing' = Relocate(summarizing, conversationHistory.messages,
                               MovedByFilter(conversationHistory.messages))
    /\ UNCHANGED loops
    /\ TurnFrame

TurnNext ==
    \/ \E content \in Contents : TurnSubmit(content)
    \/ TurnSummarizationSettled
    \/ \E text \in {<<>>, Text("a")}, hasAction \in BOOLEAN : TurnResponse(text, hasAction)
    \/ \E content \in Contents : TurnFeedback(content)
    \/ TurnClear

SpecTurn == TurnInit /\ [][TurnNext]_vars

\* C20 (as claimed): whatever the caller does to the array getHistory() returned,
\* to its entries or to the role or content of a returned message, the store's
\* history stays what it was when the array was handed out.
C20_GetHistoryIsDefensiveCopy ==
    returned.active => conversationHistory.messages = returned.reported

----------------------------------------------------------------------------
(* Claims about summarization and the message list, checked under SpecSum and SpecStore *)

SystemMessages(messages) == SelectSeq(messages, LAMBDA msg : msg.role = "system")

NonSystemMessages(messages) == SelectSeq(messages, LAMBDA msg : msg.role # "system")

C17_FailedSummarizationKeepsHistory ==
    [][/\ (lastCall'.op = "addMessageWithSummarization awaits" /\ summarizing'.active
                /\ ~summarizing.active) =>
            /\ Len(conversationHistory'.messages) = Len(conversationHistory.messages) + 1
            /\ SubSeq(conversationHistory'.messages, 1, Len(conversationHistory.messages))
                    = conversationHistory.messages
       /\ (summarizing.active /\ ~summarizing'.active /\ lastCall'.op \in {"failed", "threw"}) =>
            /\ conversationHistory' = conversationHistory
            /\ ~lastCall'.threw]_vars

\* C17 witness: a summarization of a history with messages to compress has failed.
C17_Witness ==
    /\ lastCall.op = "failed"
    /\ Len(NonSystemMessages(conversationHistory.messages)) >= 3

\* C18: clear() removes every message that is not a system message: a history with
\* a system message becomes that message alone, content unchanged, and any other
\* history becomes empty.
C18_ClearKeepsSystemMessage ==
    [][lastCall'.op = "clear" =>
          LET sys == SystemMessages(conversationHistory.messages)
          IN  /\ sys # <<>> => conversationHistory'.messages = <<sys[1]>>
              /\ sys = <<>> => conversationHistory'.messages = <<>>]_vars

\* C18 witness: a history whose system message had been replaced has been cleared
\* while a transaction was open.
C18_Witness ==
    /\ lastCall = Call("clear", FALSE, TRUE)
    /\ conversationHistory.messages = <<[role |-> "system", content |-> Text("sys2")]>>

\* C19: the history holds at most one system message, and it is the first message;
\* addSystemMessage replaces the content of a system message at the head and
\* otherwise inserts its message at the head.
C19_OneSystemMessageFirst ==
    /\ [](LET messages == conversationHistory.messages
           IN  /\ Len(SystemMessages(messages)) <= 1
               /\ \A i \in 1..Len(messages) : messages[i].role = "system" => i = 1)
    /\ [][lastCall'.op = "addSystemMessage" =>
            LET old == conversationHistory.messages
                new == conversationHistory'.messages
            IN  IF old # <<>> /\ old[1].role = "system"
                THEN /\ Len(new) = Len(old)
                     /\ new[1] = [role |-> "system", content |-> Text("sys2")]
                     /\ Tail(new) = Tail(old)
                ELSE new = <<[role |-> "system", content |-> Text("sys2")]>> \o old]_vars

\* C19 witness: a system message has been set after a summarization that ran on a
\* history without one.
C19_Witness ==
    /\ lastCall.op = "addSystemMessage"
    /\ Len(conversationHistory.messages) >= 3
    /\ conversationHistory.messages[1].role = "system"
    /\ conversationHistory.messages[2].role = "user"
    /\ conversationHistory.messages[2].content[1].s = "[SUMMARIZED CONTEXT - n messages compressed]:"

\* C11: the execution of a call whose name is not registered does not run anything
\* and does not throw: it ends as a failure whose error names the requested tool
\* and lists all the registered tool names.
C11_UnknownToolFailsWithNames ==
    \A i \in 1..Len(par.toolCalls) :
        (par.toolCalls[i].name \notin toolRegistry /\ par.status[i] # "running") =>
            /\ par.status[i] = "failed"
            /\ \E k \in 1..Len(par.errors) :
                  /\ par.errors[k].key = par.toolCalls[i].name
                  /\ par.errors[k].value =
                        <<[kind |-> "not found", name |-> par.toolCalls[i].name,
                           available |-> {"read", "glob"}]>>
            /\ \A k \in 1..Len(par.results) : par.results[k].key # par.toolCalls[i].name

\* C11 witness: an unregistered call has been executed next to a registered one.
C11_Witness ==
    /\ par.phase = "joined"
    /\ \E i, j \in 1..Len(par.toolCalls) :
          /\ par.toolCalls[i].name \notin toolRegistry /\ par.status[i] = "failed"
          /\ par.toolCalls[j].name \in toolRegistry /\ par.status[j] = "ok"

----------------------------------------------------------------------------
(* Claims about the loop and the application, checked under Spec *)

Turns == 1..MaxTurns

\* Turn l takes the step that follows the end of its stream (reader.read()
\* returned done and the commit did not throw).
StreamEnds(l) ==
    /\ loops[l].pc = "read"
    /\ loops[l].stream = <<>>
    /\ loops'[l] # loops[l]
    /\ loops'[l].exit \notin {"threw", "cancelled in stream"}

\* C1 (as claimed): at most one loop runs against the ConversationHistory at any
\* time; no user action available during a turn starts a second one.
C1_OneLoopPerHistory ==
    Cardinality({l \in Turns : Running(l)}) <= 1

\* C2 (as claimed): when cancellation has been requested while the model call of
\* an iteration is in flight, the loop leaves that call only by returning the
\* cancellation result, without committing streamed text and without a dispatch.
C2_CancelWhileStreaming ==
    [][\A l \in Turns :
          (loops[l].pc \in {"fetch", "read"} /\ isCancelledRef /\ loops'[l] # loops[l]) =>
              /\ loops'[l].pc = "returned"
              /\ loops'[l].exit = "cancelled in stream"
              /\ loops'[l].result = CancelledMessage
              /\ conversationHistory'.messages = conversationHistory.messages]_vars

\* C3: a loop never makes more than maxIterations model calls; it returns the
\* limit message only after exactly maxIterations calls, and only a response
\* without a tool call ends it with the model's answer, so that a run of responses
\* that all carry a tool call, uncancelled and without error, ends at the ceiling
\* with the fixed limit message.
C3_CeilingAfterMaxIterations ==
    \A l \in Turns :
        /\ loops[l].fetches <= maxIterations
        /\ loops[l].exit = "limit" => /\ loops[l].fetches = maxIterations
                                      /\ loops[l].result = LimitMessage
        /\ loops[l].exit = "final" => ~parseToolCall(loops[l].assistantResponse).hasAction
        /\ (loops[l].pc = "returned" /\ loops[l].result = LimitMessage) => loops[l].exit = "limit"

\* C3 witness: a turn has returned the limit message after maxIterations model calls.
C3_Witness ==
    \E l \in Turns :
        /\ loops[l].exit = "limit"
        /\ loops[l].fetches = maxIterations
        /\ parseToolCall(loops[l].assistantResponse).hasAction

\* C7: when the text of an iteration holds a well-formed tool call, the loop
\* dispatches it and goes on to the feedback and the loop head, also when the text
\* holds a final-answer section: the iteration never ends the turn as terminal.
C7_ActionWinsOverFinalAnswer ==
    [][\A l \in Turns :
          (StreamEnds(l) /\ parseToolCall(loops[l].assistantResponse).hasAction) =>
              /\ loops'[l].exit # "final"
              /\ \/ loops'[l].pc = "tool" /\ Len(loops'[l].toolCall) = 1
                 \/ loops'[l].pc = "parallel" /\ loops'[l].par.phase = "running"]_vars

\* C7 witness: a text with both an action and a final-answer section has been
\* dispatched.
C7_Witness ==
    \E l \in Turns :
        /\ loops[l].pc = "tool"
        /\ parseToolCall(loops[l].assistantResponse).hasResponse
        /\ parseToolCall(loops[l].assistantResponse).response # <<>>

\* C8 (as claimed): when the parse yields no action the loop returns the body of
\* the final-answer section.
C8_ReturnsResponseBody ==
    \A l \in Turns :
        loops[l].exit = "final" =>
            loops[l].result = parseToolCall(loops[l].assistantResponse).response

\* C8 (amended): when the parse yields no action the loop ends the turn without
\* dispatching anything, and the value it returns is the whole assistant text of
\* the iteration, section headers included.
C8_ReturnsAssistantText ==
    [][\A l \in Turns :
          (StreamEnds(l) /\ ~parseToolCall(loops[l].assistantResponse).hasAction) =>
              /\ loops'[l].pc = "returned"
              /\ loops'[l].exit = "final"
              /\ loops'[l].result = loops[l].assistantResponse
              /\ loops'[l].toolCall = <<>>
              /\ loops'[l].par = NoPar
              /\ conversationHistory'.messages = commitAppendToken(conversationHistory).messages]_vars

\* C8 witness: a turn has ended with a text that has a final-answer section.
C8_Witness ==
    \E l \in Turns :
        /\ loops[l].exit = "final"
        /\ parseToolCall(loops[l].assistantResponse).hasResponse
        /\ loops[l].result # parseToolCall(loops[l].assistantResponse).response

----------------------------------------------------------------------------
(* Claims about dispatch, transport errors and the shape of a turn, under Spec *)

Mentions(content, tok) == \E i \in DOMAIN content : content[i] = tok

\* Text `part` occurs in `content` as a run of consecutive tokens.
Includes(content, part) ==
    \E i \in 0..(Len(content) - Len(part)) : SubSeq(content, i + 1, i + Len(part)) = part

\* Turn l goes on after a dispatch: into the next iteration, or out of the loop
\* by the cancellation check or the ceiling, or into the await of a summarization.
GoesOn(l) ==
    \/ loops'[l].pc = "fetch" /\ loops'[l].iteration = loops[l].iteration + 1
    \/ loops'[l].pc = "returned" /\ loops'[l].exit \in {"cancelled after dispatch", "limit"}
    \/ loops'[l].pc = "summarize" /\ loops'[l].after = "feedback"

\* C12: the step that settles a single-tool dispatch appends exactly one user
\* message to the history, before any further model call: with the serialized
\* result on success; on failure with the tool's name and error, the instruction
\* to retry the same tool and the failed call (name and parameters). The loop
\* then goes on to its next iteration.
C12_SingleDispatchFeedsBack ==
    [][\A l \in Turns :
          (loops[l].pc = "tool" /\ loops'[l] # loops[l]) =>
              LET toolCall == loops[l].toolCall[1]
                  before == conversationHistory.messages
                  after == conversationHistory'.messages
                  content == after[Len(after)].content
              IN  /\ Len(after) = Len(before) + 1
                  /\ SubSeq(after, 1, Len(before)) = before
                  /\ after[Len(after)].role = "user"
                  /\ \/ /\ Includes(content, Text("Tool execution result:"))
                        /\ Mentions(content, ToolResult(toolCall))
                     \/ /\ Includes(content, Text("Tool failed with error:"))
                        /\ Mentions(content, ThrownError(toolCall))
                        /\ Includes(content, Text("try again with the SAME tool"))
                        /\ Mentions(content, toolCall)
                  /\ loops'[l].fetches <= loops[l].fetches + 1
                  /\ GoesOn(l)]_vars

\* C12 witness: a failed single dispatch has been fed back and the next model
\* call of the same turn is in flight.
C12_Witness ==
    \E l \in Turns :
        /\ loops[l].pc = "fetch" /\ loops[l].iteration = 2
        /\ LET messages == conversationHistory.messages
               last == messages[Len(messages)]
           IN  /\ Len(messages) > 0
               /\ last.role = "user"
               /\ Includes(last.content, Text("try again with the SAME tool"))
               /\ Mentions(last.content, ToolCall("read", "big"))

\* The tool calls of turn l whose execution is under way.
Executing(loop) ==
    IF loop.pc = "tool" THEN {<<1, loop.toolCall[1]>>}
    ELSE IF loop.pc = "parallel"
         THEN {<<i, loop.par.toolCalls[i]>> : i \in {j \in DOMAIN loop.par.status :
                                                        loop.par.status[j] = "running"}}
         ELSE {}

\* C13: the loop never runs a tool again on its own. Executions start only in
\* the step that ends a model response, one for each call parsed from that
\* response; a call that has settled, with a result or with an error, is not
\* started again: the failure goes back to the model as a message.
C13_EachRequestExecutedOnce ==
    [][\A l \in Turns :
          LET calls == parseToolCall(loops[l].assistantResponse).action
              requested == {<<i, calls[i]>> : i \in DOMAIN calls}
          IN  /\ Executing(loops'[l]) \subseteq
                    (IF StreamEnds(l) THEN requested ELSE Executing(loops[l]))
              /\ (StreamEnds(l) /\ loops'[l].pc \in {"tool", "parallel"}) =>
                    Executing(loops'[l]) = requested
              /\ (loops[l].pc = "tool" /\ loops'[l] # loops[l]) =>
                    loops'[l].pc # "tool" /\ loops'[l].toolCall = <<>>
              /\ (loops[l].pc = "parallel" /\ loops'[l] # loops[l]) =>
                    \/ /\ loops'[l].pc = "parallel"
                       /\ Cardinality(Executing(loops'[l])) = Cardinality(Executing(loops[l])) - 1
                    \/ /\ loops'[l].pc # "parallel"
                       /\ Executing(loops[l]) = {}
                       /\ loops'[l].par = NoPar]_vars

\* C13 witness: a parallel dispatch had a failing call, was fed back, and the
\* turn is in its next model call with nothing executing.
C13_Witness ==
    \E l \in Turns :
        /\ loops[l].pc = "fetch" /\ loops[l].iteration = 2
        /\ Executing(loops[l]) = {}
        /\ LET messages == conversationHistory.messages
           IN  /\ Len(messages) > 0
               /\ messages[Len(messages)].role = "user"
               /\ Includes(messages[Len(messages)].content,
                           Text("Parallel tool execution completed with errors:"))

C15_TurnGainsAlternatingMessages ==
    [][\A l \in Turns :
          (loops[l].exit # "final" /\ loops'[l].exit = "final") =>
              LET k == loops'[l].iteration - 1
                  base == loops[l].base
                  messages == conversationHistory'.messages
              IN  /\ loops'[l].fetches = k + 1
                  /\ Len(messages) = base + 2 * k + 2
                  /\ \A i \in 1..(2 * k + 2) :
                        messages[base + i].role = IF i % 2 = 1 THEN "user" ELSE "assistant"]_vars

----------------------------------------------------------------------------
(* Claims about the token transaction outside a transaction, under SpecStore *)

\* C21: appendToken and commitAppendToken called while no transaction is active
\* (never started, or already committed or cancelled) raise an error and leave
\* the messages, the pending buffer and the transaction flag as they were.
C21_AppendCommitNeedTransaction ==
    [][(lastCall'.op \in {"appendToken", "commitAppendToken"}
            /\ ~conversationHistory.isAppending) =>
          /\ lastCall'.threw
          /\ conversationHistory' = conversationHistory
          /\ tx' = tx]_vars

\* C21 witness: a fragment was refused after the transaction had been cancelled.
C21_Witness ==
    /\ lastCall.op = "appendToken" /\ lastCall.threw
    /\ tx.phase = "cancelled"
    /\ ~conversationHistory.isAppending

----------------------------------------------------------------------------
(* Claims about the parser, under SpecParse *)

\* The text was parsed by the parser of the encoding its action section is in.
ParsedInOwnEncoding ==
    \/ /\ evaluation.fn = "parseToolCall"
       /\ evaluation.source.action.encoding \in {"json value", "json array"}
    \/ /\ evaluation.fn = "parseToolCallTags"
       /\ evaluation.source.action.encoding = "tags"

\* The values of the parameters named n in a tool block, in source order.
ValuesOf(params, n) ==
    LET at == SelectSeq([i \in 1..Len(params) |-> i], LAMBDA i : params[i].n = n)
    IN  [k \in 1..Len(at) |-> params[at[k]].v]

\* The parameters a tool block stands for: each name once, in order of first
\* occurrence, with its value, or with the array of its values when it repeats.
MeantParameters(params) ==
    LET first == SelectSeq([i \in 1..Len(params) |-> i],
                           LAMBDA i : \A j \in 1..(i - 1) : params[j].n # params[i].n)
    IN  [k \in 1..Len(first) |->
            LET n == params[first[k]].n
                values == ValuesOf(params, n)
            IN  [key |-> n,
                 value |-> IF Len(values) = 1 THEN StringValue(values[1])
                           ELSE ArrayValue(values)]]

\* The well-formed calls the action section of the description holds, in order.
MeantCalls(action) ==
    IF action.encoding = "tags"
    THEN [i \in 1..Len(action.items) |->
             ToolCall(action.items[i].name, MeantParameters(action.items[i].params))]
    ELSE IF action.encoding \in {"json value", "json array"}
    THEN LET kept == SelectSeq(action.items,
                               LAMBDA v : v.type = "object" /\ "name" \in v.keys
                                          /\ "parameters" \in v.keys)
         IN  [i \in 1..Len(kept) |-> ToolCall(kept[i].name, kept[i].parameters)]
    ELSE <<>>

Repeats(params) == \E i, j \in 1..Len(params) : i # j /\ params[i].n = params[j].n

RepeatsInAction(action) ==
    /\ action.encoding = "tags"
    /\ \E i \in 1..Len(action.items) : Repeats(action.items[i].params)

ParsedAgain(content) ==
    IF evaluation.fn = "parseToolCall" THEN parseToolCall(content) ELSE parseToolCallTags(content)

\* The action section is there and holds no well-formed call, as the parser
\* that was applied reads calls.
ActionWithoutCalls ==
    /\ evaluation.fn \in {"parseToolCall", "parseToolCallTags"}
    /\ evaluation.source.action.encoding # "none"
    /\ ParsedInOwnEncoding => MeantCalls(evaluation.source.action) = <<>>

\* C23: a text whose action section holds no well-formed call is parsed like the
\* same text without the action section: no action, the same thinking and final
\* answer, null in the same cases; the loop dispatches nothing and the iteration
\* is terminal.
C23_EmptyActionIsNoAction ==
    ActionWithoutCalls =>
        LET out == evaluation.output
            without == ParsedAgain(Render([evaluation.source EXCEPT
                                              !.action = [encoding |-> "none", items |-> <<>>],
                                              !.lead = FALSE]))
        IN  /\ ~out.hasAction /\ out.action = <<>>
            /\ out = without
            /\ ~ShouldDispatch(out)

\* C23 witness: a JSON array of two values, neither a call, before a final answer.
C23_Witness ==
    /\ ActionWithoutCalls
    /\ evaluation.fn = "parseToolCall"
    /\ evaluation.source.action.encoding = "json array"
    /\ Len(evaluation.source.action.items) = 2
    /\ evaluation.output.hasResponse /\ ~evaluation.output.hasAction

\* C24 (as claimed): in the tag encoding a parameter name that occurs k >= 2
\* times in one tool block parses to the array of all k values in source order,
\* whatever the values; no occurrence overwrites an earlier one.
C24_RepeatedParametersCollect ==
    (evaluation.fn = "parseToolCallTags" /\ RepeatsInAction(evaluation.source.action)) =>
        /\ Len(evaluation.output.action) = Len(evaluation.source.action.items)
        /\ \A i \in 1..Len(evaluation.source.action.items) :
              evaluation.output.action[i].parameters =
                  MeantParameters(evaluation.source.action.items[i].params)

\* The text holds a final-answer section and nothing else.
OnlyResponse ==
    /\ evaluation.fn \in {"parseToolCall", "parseToolCallTags"}
    /\ ~evaluation.source.thinking
    /\ evaluation.source.action.encoding = "none"
    /\ evaluation.source.response.present

\* C25 (as claimed): a text that holds only a final-answer section parses to a
\* result that is not null, has no action, and whose final answer is the body of
\* the section: everything after the header line up to the end of the text.
C25_ResponseBodyVerbatim ==
    OnlyResponse =>
        /\ ~evaluation.output.isNull
        /\ ~evaluation.output.hasAction
        /\ evaluation.output.hasResponse
        /\ evaluation.output.response = evaluation.source.response.body

\* A text without the empty lines it begins with; the empty text is one empty line.
RECURSIVE WithoutLeadingBlank(_)
WithoutLeadingBlank(text) ==
    IF Len(text) <= 1 THEN (IF text = <<>> THEN <<Blank>> ELSE text)
    ELSE IF IsBlank(Head(text)) THEN WithoutLeadingBlank(Tail(text))
    ELSE text

\* C25 (amended): a text that holds only a final-answer section, its header line
\* ended by a line break, parses to a result that is not null, has no action,
\* and whose final answer is the body of the section without the empty lines
\* the body begins with; the header alone, with no line break, parses to null.
C25_ResponseBodyAfterEmptyLines ==
    OnlyResponse =>
        IF evaluation.source.response.newline
        THEN /\ ~evaluation.output.isNull
             /\ ~evaluation.output.hasAction
             /\ evaluation.output.hasResponse
             /\ evaluation.output.response = WithoutLeadingBlank(evaluation.source.response.body)
        ELSE evaluation.output.isNull

\* C25 witness: the body began with an empty line, the final answer does not.
C25_Witness ==
    /\ OnlyResponse
    /\ evaluation.source.response.body = <<Blank>> \o Text("answer")
    /\ evaluation.output.response = Text("answer")

----------------------------------------------------------------------------
(* Parameter coercion *)

\* The conversion has been applied to a tool schema that is an object schema.
Coerced == evaluation.fn = "convertParametersToTypes" /\ evaluation.source.schema.isObject

\* The texts that read true, whatever their case.
TrueTexts == {"true", "TRUE", "True", "1"}

\* The texts that are numerals, and their numbers.
Numerals == [t \in {"0", "1", "2", "3"} |-> CASE t = "0" -> 0 [] t = "1" -> 1 [] t = "2" -> 2 [] OTHER -> 3]

\* What one raw text is to become in a field of the given key.
ConvertedAs(key, raw, result) ==
    IF key = "flag"
    THEN result = Bool(raw.s \in TrueTexts)
    ELSE IF raw.s \in DOMAIN Numerals THEN result = Num(Numerals[raw.s])
         ELSE raw.s # "" => result.t # "number"

C27_ArrayFieldParseWrapOrKeep ==
    Coerced =>
        \A i \in DOMAIN evaluation.input :
            LET raw == evaluation.input[i].value
                result == evaluation.output[i].value
            IN  evaluation.input[i].key = "list" =>
                    /\ raw = Str(ArrayLiteral) => result = Arr(<<Str("a"), Str("b")>>)
                    /\ raw.t = "string" /\ raw # Str(ArrayLiteral) => result = Arr(<<raw>>)
                    /\ raw.t = "array" => result = raw

C27_Witness ==
    /\ Coerced
    /\ evaluation.input = <<[key |-> "list", value |-> Str(ArrayLiteral)]>>
    /\ evaluation.output = <<[key |-> "list", value |-> Arr(<<Str("a"), Str("b")>>)]>>

\* C28: the conversion always yields an object with exactly the parameter names
\* of the raw one, and the value of a parameter that the schema does not
\* declare, or declares as a string or a type the conversion does not know,
\* is the raw value.
C28_CoercionKeepsNamesAndOtherValues ==
    evaluation.fn = "convertParametersToTypes" =>
        /\ Len(evaluation.output) = Len(evaluation.input)
        /\ \A i \in DOMAIN evaluation.input :
              /\ evaluation.output[i].key = evaluation.input[i].key
              /\ \/ ~evaluation.source.schema.isObject
                 \/ evaluation.input[i].key \in {"extra", "name", "mode"}
                 => evaluation.output[i].value = evaluation.input[i].value

C28_Witness ==
    /\ Coerced
    /\ evaluation.source.schema.shape.count.wraps = <<"ZodDefault">>
    /\ evaluation.input = <<[key |-> "name", value |-> Str("")], [key |-> "extra", value |-> Str("TRUE")]>>
    /\ evaluation.output = evaluation.input

----------------------------------------------------------------------------
(* The iteration ceiling *)

\* C29: within one turn the loop never makes more than 10 model calls.
C29_AtMostTenModelCalls ==
    evaluation.fn = "handleRecursiveToolCalling" => evaluation.output.fetches <= 10

----------------------------------------------------------------------------
(* Validation in createTool *)

\* C30: execute of a tool built with createTool validates the parameters
\* before the body runs: a body that has run was given the validated
\* parameters of a successful validation, and when validation fails execute
\* is rejected with the validation error and the body has not run.
C30_ValidationBeforeBody ==
    (evaluation.fn = "execute" /\ evaluation.output.pc # "not called") =>
        LET validation == parse(evaluation.input, evaluation.source.schema)
        IN  /\ evaluation.output.bodyRuns > 0 =>
                  /\ validation.ok
                  /\ evaluation.output.validatedParams = validation.value
            /\ ~validation.ok =>
                  /\ evaluation.output.pc = "settled"
                  /\ evaluation.output.settled = "rejected"
                  /\ evaluation.output.error = "ZodError"
                  /\ evaluation.output.bodyRuns = 0

C30_Witness ==
    /\ evaluation.fn = "execute"
    /\ evaluation.source.schema.shape.count.wraps = <<"ZodDefault", "ZodOptional">>
    /\ evaluation.input = <<[key |-> "count", value |-> NaN]>>
    /\ evaluation.output.settled = "rejected"
    /\ evaluation.output.error = "ZodError"
    /\ evaluation.output.bodyRuns = 0

----------------------------------------------------------------------------
(* Cancellation and the streaming transaction *)

\* C31 (as claimed): when a loop returns the cancellation result because the
\* cancellation was seen at the loop head or during the model call, no
\* streaming transaction is active on the history and the pending buffer is
\* empty.
C31_CancelledTurnDiscardsTransaction ==
    [][\A l \in Turns :
          (/\ loops'[l] # loops[l]
           /\ loops'[l].pc = "returned"
           /\ loops'[l].exit \in {"cancelled at head", "cancelled in stream"}) =>
              /\ ~conversationHistory'.isAppending
              /\ conversationHistory'.pendingTokenBuffer = <<>>]_vars

----------------------------------------------------------------------------
(* Summarization and the other operations of the store *)

\* C32 (as claimed): from the moment a summarization has read the history to
\* the moment it installs the rebuilt one, no other operation changes the
\* messages of the history.
C32_SummarizationIsAtomic ==
    [][(summarizing.active /\ summarizing'.active) =>
           conversationHistory'.messages = conversationHistory.messages]_vars

----------------------------------------------------------------------------
(* Model calls per iteration *)

\* The feedback append of turn l's iteration is awaiting the summarize tool.
SummarizingFeedback(l) ==
    /\ loops[l].pc = "summarize"
    /\ loops[l].after = "feedback"
    /\ summarizing.active
    /\ summarizing.owner = l

\* The summarize tool of that append has made a model call of its own: the
\* text is accepted by its schema and is not over its size limit.
NestedModelCall(l) ==
    /\ SummarizingFeedback(l)
    /\ summarizing.chars > 0
    /\ summarizing.chars <= MaxSummarizeContent

\* C33 (as claimed): an iteration makes one model call and no more, also when
\* its feedback message is appended through the summarization path.
C33_OneModelCallPerIteration ==
    \A l \in Turns : ~NestedModelCall(l)

\* C33 (amended): the loop itself makes exactly one model call per iteration;
\* the summarize tool makes a further one when the feedback append of the
\* iteration summarizes, and the step after that append is a new iteration or
\* the end of the turn, so there is at most one such nested call per iteration.
C33_OneLoopCallAndAtMostOneNested ==
    /\ [](\A l \in Turns : loops[l].fetches = loops[l].iteration)
    /\ [][\A l \in Turns :
             (SummarizingFeedback(l) /\ loops'[l] # loops[l]) =>
                 \/ loops'[l].pc \in {"returned", "threw"}
                 \/ /\ loops'[l].iteration = loops[l].iteration + 1
                    /\ loops'[l].fetches = loops[l].fetches + 1
                    /\ loops'[l].pc = "fetch"]_vars

C33_Witness ==
    \E l \in Turns :
        /\ NestedModelCall(l)
        /\ loops[l].iteration = 1
        /\ loops[l].fetches = 1

----------------------------------------------------------------------------
(* Cancellation during a dispatch *)

\* Turn l is in a dispatch: its tools run, or their feedback is being appended.
InDispatch(l) == loops[l].pc \in {"tool", "parallel"} \/ SummarizingFeedback(l)

\* The step of turn l that ends a dispatch in which cancellation is requested
\* returns the cancellation result, or waits for the summarization of the
\* feedback; it makes no model call.
CancelledAfterDispatch(l) ==
    /\ loops'[l].fetches = loops[l].fetches
    /\ \/ /\ loops'[l].pc = "returned"
          /\ loops'[l].exit = "cancelled after dispatch"
          /\ loops'[l].result = CancelledMessage
       \/ /\ loops[l].pc \in {"tool", "parallel"}
          /\ loops'[l].pc = "summarize"

\* A cancellation requested during the dispatch of turn l leaves the tools
\* running: a parallel dispatch goes on one settled call at a time, and the
\* dispatch ends with its feedback appended as a user message.
DispatchRunsToCompletion(l) ==
    (loops[l].pc \in {"tool", "parallel"} /\ isCancelledRef /\ loops'[l] # loops[l]) =>
        \/ /\ loops[l].pc = "parallel" /\ loops'[l].pc = "parallel"
           /\ Cardinality(Executing(loops'[l])) = Cardinality(Executing(loops[l])) - 1
        \/ /\ Executing(loops'[l]) = {}
           /\ Len(conversationHistory'.messages) > 0
           /\ conversationHistory'.messages[Len(conversationHistory'.messages)].role = "user"
           /\ CancelledAfterDispatch(l)

\* The part of C34 that is the loop's own: it holds of every turn.
PendingCancellationHonoured ==
    [][\A l \in Turns :
          /\ DispatchRunsToCompletion(l)
          /\ (SummarizingFeedback(l) /\ isCancelledRef /\ loops'[l] # loops[l]) =>
                CancelledAfterDispatch(l)]_vars

\* C34 (as claimed): a cancellation requested while the tools of a dispatch run
\* does not interrupt them, their feedback is appended, and the loop then
\* returns the cancellation result without another model call: the request
\* stands until the loop has returned, and the loop acts on it as above.
C34_CancelDuringToolEndsTurnAfterFeedback ==
    [][\A l \in Turns :
          /\ DispatchRunsToCompletion(l)
          /\ (SummarizingFeedback(l) /\ isCancelledRef /\ loops'[l] # loops[l]) =>
                CancelledAfterDispatch(l)
          /\ (InDispatch(l) /\ isCancelledRef) =>
                (isCancelledRef' \/ loops'[l].pc = "returned")]_vars

----------------------------------------------------------------------------
(* Cancellation during a pending read *)

\* A read of turn l that is pending with cancellation requested ends, unless
\* the request is withdrawn.
PendingReadAborted ==
    \A l \in Turns :
        (loops[l].pc = "read" /\ isCancelledRef) ~> (loops[l].pc # "read" \/ ~isCancelledRef)

\* C35 (as claimed): when cancellation is requested while a read of the
\* stream is pending, the read does not stay pending, whether or not a
\* further fragment arrives.
C35_CancelledReadEnds ==
    \A l \in Turns :
        (loops[l].pc = "read" /\ isCancelledRef) ~> (loops[l].pc # "read")

----------------------------------------------------------------------------
(* The exits of a turn *)

\* The ways handleRecursiveToolCalling is left, by kind.
ExitKind(exit) ==
    CASE exit = "final" -> "terminal answer"
      [] exit \in {"cancelled at head", "cancelled in stream", "cancelled after dispatch"} ->
            "cancellation result"
      [] exit = "limit" -> "limit result"
      [] exit = "threw" -> "error"
      [] OTHER -> "none"

\* C36: when every call finishes, a turn ends; it has then made at most
\* maxIterations model calls and has ended in one of four ways: the model's
\* answer, the cancellation result, the limit result (after exactly
\* maxIterations calls), or an error; once ended it stays ended.
C36_TurnTerminatesInOneOfFourExits ==
    /\ <>(evaluation.output.pc = "returned")
    /\ [](evaluation.output.fetches <= evaluation.input)
    /\ [](IF evaluation.output.pc = "returned"
          THEN /\ ExitKind(evaluation.output.exit) # "none"
               /\ ExitKind(evaluation.output.exit) = "limit result" =>
                      evaluation.output.fetches = evaluation.input
          ELSE evaluation.output.exit = "none")
    /\ [][evaluation.output.pc = "returned" => evaluation' = evaluation]_vars

C36_Witness ==
    /\ evaluation.fn = "handleRecursiveToolCalling"
    /\ evaluation.output.pc = "returned"
    /\ evaluation.output.exit = "limit"
    /\ evaluation.output.fetches = DefaultMaxIterations

----------------------------------------------------------------------------
(* The text accumulated from a stream *)

\* The content of the well-formed data records of a stream, in order.
ContentOf(records) == SelectSeq(records, LAMBDA kind : kind \in {"a", "b"})

\* The whole stream has been read.
StreamRead == evaluation.fn = "onChunk" /\ evaluation.input = <<>>

\* A stream without a line that is no JSON gives the content of its data
\* records in order, however it is cut.
WellFormedStreamDecoded ==
    (StreamRead /\ \A i \in DOMAIN evaluation.source.records :
                       evaluation.source.records[i] # "malformed") =>
        evaluation.output.assistantResponse = ContentOf(evaluation.source.records)

\* C37 (as claimed): the text accumulated from a stream is the content of its
\* complete well-formed data records in order, however the stream is cut into
\* fragments; a malformed record is skipped and no well-formed record is
\* dropped because of it.
C37_DecodedTextIsContentOfRecords ==
    StreamRead => evaluation.output.assistantResponse = ContentOf(evaluation.source.records)

----------------------------------------------------------------------------
(* What the operations of the store do to the messages already there *)

\* The messages before the step are the first messages after it.
PreviousIsPrefix ==
    LET old == conversationHistory.messages
        new == conversationHistory'.messages
    IN  Len(old) <= Len(new) /\ SubSeq(new, 1, Len(old)) = old

\* C38 (as claimed): apart from the commit of the streaming transaction and
\* clear, every operation of the store leaves the previous history as a prefix
\* of the new one.
C38_AppendOnlyExceptCommitAndClear ==
    [][PreviousIsPrefix \/ lastCall'.op \in {"commitAppendToken", "clear"}]_vars

\* C38 (amended): apart from the commit of the streaming transaction, clear,
\* addSystemMessage (alone or with summarization) and the rebuild of a
\* summarization that succeeded, every operation of the store leaves the
\* previous history as a prefix of the new one; the rebuild takes place only
\* when the summarize tool has returned a summary.
C38_AppendOnlyExceptCommitClearSystemAndRebuild ==
    [][\/ PreviousIsPrefix
       \/ lastCall'.op \in {"commitAppendToken", "clear", "addSystemMessage",
                            "addSystemMessageWithSummarization awaits"}
       \/ summarizing.active /\ lastCall'.op = "ok"]_vars

\* C38 witness: a message was appended through the summarization path, which
\* now awaits the summarize tool, and a pending transaction has been cancelled.
C38_Witness ==
    /\ lastCall.op = "cancelAppendToken"
    /\ summarizing.active
    /\ Len(conversationHistory.messages) = MaxHistory

----------------------------------------------------------------------------
(* Finalizing a transaction twice *)

\* C39 (as claimed): after a transaction has been committed or cancelled, a
\* further commitAppendToken or cancelAppendToken without a new
\* startAppendToken raises an error and changes nothing.
C39_NoSecondFinalization ==
    [][(/\ lastCall'.op \in {"commitAppendToken", "cancelAppendToken"}
        /\ tx.phase \in {"committed", "cancelled"}
        /\ ~conversationHistory.isAppending) =>
          /\ lastCall'.threw
          /\ conversationHistory' = conversationHistory]_vars

----------------------------------------------------------------------------
(* The message list sent to the model *)

\* A request has been composed in this step.
RequestComposed == loops'.pc = "fetch" /\ loops.pc # "fetch"

Extends(old, new) == Len(old) <= Len(new) /\ SubSeq(new, 1, Len(old)) = old

\* C40: the list sent in an iteration is the loop's own list. In the first
\* iteration of a turn it is the store's history as it is at the start of the
\* loop; in a later iteration it is the list sent in the iteration before,
\* extended by the assistant and feedback messages the loop pushed, whatever a
\* summarization or a clear has done to the store in between.
C40_SentListIsTurnLocal ==
    [][RequestComposed =>
         /\ loops'.sent = loops'.currentMessages
         /\ loops'.iteration = 1 => loops'.sent = getHistoryForLLM(conversationHistory')
         /\ loops'.iteration > 1 =>
               /\ loops'.turn = loops.turn
               /\ Extends(loops.sent, loops'.sent)
               /\ \A i \in (Len(loops.sent) + 1)..Len(loops'.sent) :
                     loops'.sent[i].role \in {"assistant", "user"}]_vars

\* A later iteration of a turn has sent its list after the store was collapsed or
\* cleared during the turn: the store holds fewer messages than the list sent.
C40_Witness ==
    /\ loops.pc = "fetch"
    /\ loops.iteration > 1
    /\ Len(conversationHistory.messages) < Len(loops.sent)
    /\ \E i \in 1..Len(conversationHistory.messages) :
          conversationHistory.messages[i].content[1].s = "[SUMMARIZED CONTEXT - n messages compressed]:"
====
